---- MODULE Spec2Model ----
(***************************************************************************)
(* State-machine model of the 2D point annotator (src/src/main.py):        *)
(* the LOB/ROB segmentation engine (_segment_ff, _segment_adaptive_cc,     *)
(* _sanity_and_clean, _grow_shrink), its fallback orchestrator             *)
(* (_segment_with_fallback) and the GUI handlers that own the mask and     *)
(* settings store (seg_masks, lm_settings, last_seed, annotations).        *)
(*                                                                         *)
(* A mask is not modelled pixel by pixel here: a mask is the record of the *)
(* image and of the parameters the vision primitives were given, which     *)
(* determine its pixels.  What the image content decides (the area of the  *)
(* filled region, the component label under the seed, whether a primitive  *)
(* raises) is an input of each segmenter call, drawn from small sets.      *)
(***************************************************************************)
EXTENDS Integers, Sequences, FiniteSets, TLC

\* ------------------------------------------------------------------------
\* Bounds of the model
\* ------------------------------------------------------------------------

\* width and height of the images of the model, in pixels
ImgW == 8
ImgH == 8

\* ------------------------------------------------------------------------
\* Program constants
\* ------------------------------------------------------------------------

MinArea == 30
SensCap == 50
SensRelax == 10
TolCap == 80
DefaultSens == 18
DefaultEdgeWidth == 2
EdgeWidthCap == 5
PatchRadius == 3
GrowCap == 25

\* the Python value None, where a mask is expected
None == [kind |-> "None"]

FloodFill == "Flood Fill"
AdaptiveCC == "Adaptive CC"
Methods == {FloodFill, AdaptiveCC}

\* the image files of the directory, in sorted order, and str(None)
Images == <<"A", "B">>
NoImage == "None"

\* self.landmarks, the landmark columns of the CSV
Landmarks == <<"LOB", "ROB", "PT">>
SpecialAll == {"LOB", "ROB", "PT"}
Special == {"LOB", "ROB"}

\* ------------------------------------------------------------------------
\* State
\* ------------------------------------------------------------------------

VARIABLES
    \* the segmentation settings held by the Tk variables
    method, fill_sensitivity, edge_lock, edge_lock_width, use_clahe, grow_shrink,
    \* the GUI state
    current_image_path, selected_landmark, landmark_visibility, annotations,
    last_seed, seg_masks, lm_settings,
    \* the annotations table of the SQLite database and the rows of the CSV file
    db, csv,
    \* the position of the running handler and the locals of _segment_with_fallback
    pc, handler, fb_x, fb_y, jit, fb_mask,
    \* history: the segmenter calls of the running (or last) _segment_with_fallback,
    \* the settings at its entry, and how it ended
    attempts, entry, outcome,
    \* the exception that ended the last handler ("none": it returned), and the
    \* number of user events handled so far
    error, ops,
    \* self.dirty: changes since the last save
    dirty,
    \* the mask handed to _sanity_and_clean on its own, and what it returned
    san,
    \* the mask and the steps handed to _grow_shrink on its own, what it
    \* returned, and what _grow_shrink(result, 0) returned after it
    gs,
    \* the point and the settings of one landmark written to the database and
    \* the CSV on their own, the record and the cell written, and what
    \* load_points read back from the cell
    rt,
    \* one use of OneDriveBackup: the file paths given and what happens to each,
    \* the position of the uploading thread, its counters, the values
    \* upload_backup_sync returned, the calls of the callback, and the lock
    od,
    \* threads calling upload_backup_sync or _ensure_initialized at the same
    \* time: the call of each thread and its position, and for each
    \* OneDriveBackup instance the holder of its lock and _initialized
    th,
    \* the backup at window close: the files, the position of the upload
    \* thread and of the main thread, upload_state, and the dialog
    bk,
    \* what the last _resegment_for did after _segment_with_fallback returned:
    \* "warned" (the "No region found" warning), "stored" (_grow_shrink and
    \* the write of seg_masks), or "none"
    rf,
    \* a sensitivity handed to the segmenters on its own, and the parameters
    \* _segment_ff and _segment_adaptive_cc derive from it
    pm,
    \* history of the navigation: the image of the last click or delete, its
    \* annotations as that change left them, and whether the user has since
    \* moved away from the image ("away") and come back to it ("back")
    nav

settings_vars == <<method, fill_sensitivity, edge_lock, edge_lock_width, use_clahe,
                   grow_shrink>>
gui_vars == <<current_image_path, selected_landmark, landmark_visibility, annotations,
              last_seed, seg_masks, lm_settings>>
store_vars == <<db, csv>>
call_vars == <<pc, handler, fb_x, fb_y, jit, fb_mask, attempts, entry, outcome>>
event_vars == <<error, ops, dirty>>
sanity_vars == <<san, gs, rt, od, th, bk, rf, pm, nav>>
vars == <<settings_vars, gui_vars, store_vars, call_vars, event_vars, sanity_vars>>

Max(a, b) == IF a >= b THEN a ELSE b
Min(a, b) == IF a <= b THEN a ELSE b

\* the dict of segmentation settings that _current_settings_dict builds
SettingsDict(m, sens, el, ew, cl, g) ==
    [method |-> m,
     sens |-> sens,
     edge_lock |-> IF el THEN 1 ELSE 0,
     edge_width |-> ew,
     clahe |-> IF cl THEN 1 ELSE 0,
     grow |-> g]

\* _current_settings_dict: the dict of the current UI settings
_current_settings_dict ==
    SettingsDict(method, fill_sensitivity, edge_lock, edge_lock_width, use_clahe,
                 grow_shrink)

\* ------------------------------------------------------------------------
\* Binary floating point: the value of the Python expression 0.7 * w * h
\* ------------------------------------------------------------------------
\* A natural number is a little-endian sequence of 16-bit limbs without a
\* leading zero limb; a float is [m |-> limbs, e |-> k], of value m * 2^e.

Limb == 2^16

RECURSIVE BigNorm(_)
BigNorm(a) ==
    IF Len(a) > 0 /\ a[Len(a)] = 0 THEN BigNorm(SubSeq(a, 1, Len(a) - 1)) ELSE a

RECURSIVE BigMulCarry(_, _, _)
BigMulCarry(a, n, carry) ==
    IF Len(a) = 0
    THEN IF carry = 0 THEN <<>> ELSE <<carry % Limb>> \o BigMulCarry(<<>>, n, carry \div Limb)
    ELSE LET t == a[1] * n + carry
         IN  <<t % Limb>> \o BigMulCarry(Tail(a), n, t \div Limb)

\* the product of the natural a and the small natural n (n < 2^14)
BigMulSmall(a, n) == BigNorm(BigMulCarry(a, n, 0))

RECURSIVE BitLenInt(_)
BitLenInt(n) == IF n = 0 THEN 0 ELSE 1 + BitLenInt(n \div 2)

BigBitLen(a) == IF Len(a) = 0 THEN 0 ELSE 16 * (Len(a) - 1) + BitLenInt(a[Len(a)])

\* a shifted right by k bits, 0 <= k < 16
BigShr(a, k) ==
    BigNorm([i \in 1..Len(a) |->
        (a[i] \div 2^k) + (IF i < Len(a) THEN (a[i + 1] % 2^k) * 2^(16 - k) ELSE 0)])

RECURSIVE BigInc(_)
BigInc(a) ==
    IF Len(a) = 0 THEN <<1>>
    ELSE IF a[1] + 1 < Limb THEN <<a[1] + 1>> \o Tail(a)
    ELSE <<0>> \o BigInc(Tail(a))

\* -1, 0, 1 as a < b, a = b, a > b
RECURSIVE BigCmp(_, _)
BigCmp(a, b) ==
    IF Len(a) # Len(b) THEN (IF Len(a) < Len(b) THEN -1 ELSE 1)
    ELSE IF Len(a) = 0 THEN 0
    ELSE IF a[Len(a)] # b[Len(b)] THEN (IF a[Len(a)] < b[Len(b)] THEN -1 ELSE 1)
    ELSE BigCmp(SubSeq(a, 1, Len(a) - 1), SubSeq(b, 1, Len(b) - 1))

\* the small natural n (n < 2^14) times 2^k, as limbs
BigShlSmall(n, k) ==
    LET t == n * 2^(k % 16)
    IN  BigNorm([i \in 1..(k \div 16) |-> 0] \o <<t % Limb, t \div Limb>>)

\* the double nearest to 0.7: 0x1.6666666666666p-1 = 0x16666666666666 * 2^-53
Float07 == [m |-> <<26214, 26214, 26214, 22>>, e |-> -53]

\* the product of the float f and the int n, rounded to nearest, ties to even,
\* to the 53 bits of a double's significand
FloatMulInt(f, n) ==
    LET p == BigMulSmall(f.m, n)
        sh == Max(0, BigBitLen(p) - 53)
        q == BigShr(p, sh)
        r == IF sh = 0 THEN 0 ELSE p[1] % 2^sh
        half == IF sh = 0 THEN 1 ELSE 2^(sh - 1)
        up == sh > 0 /\ (r > half \/ (r = half /\ q[1] % 2 = 1))
    IN  [m |-> IF up THEN BigInc(q) ELSE q, e |-> f.e + sh]

\* n > f, for an int n (n < 2^14) and a float f with f.e < 0
IntGtFloat(n, f) == BigCmp(BigShlSmall(n, 0 - f.e), f.m) = 1

\* ------------------------------------------------------------------------
\* The segmenters
\* ------------------------------------------------------------------------

\* What the image content and the vision library decide in one segmenter call:
\* the primitive that raises ("none": none does), the area of the region found,
\* and where the seed lies for the component labeling ("seed": on a component
\* or with one within the radius-3 patch, "far": on background with none).
AreaSamples == {MinArea - 1, MinArea, (7 * ImgW * ImgH) \div 10 + 1}
Primitives == {"Canny", "dilate", "floodFill", "adaptiveThreshold", "morphologyEx",
               "connectedComponentsWithStats"}
Env ==
    [fail : {"none"}, area : AreaSamples, lbl : {"seed"}]
    \cup [fail : {"none"}, area : {MinArea}, lbl : {"far"}]
    \cup [fail : Primitives, area : {MinArea}, lbl : {"seed"}]

\* the result of a segmenter call: the value returned (a mask or None), whether
\* the call ended with an exception instead, and the primitives it invoked
Returned(seg, m, prims) == [seg |-> seg, res |-> m, raised |-> FALSE, prims |-> prims]
Raised(seg, prims) == [seg |-> seg, res |-> None, raised |-> TRUE, prims |-> prims]

\* 0 <= x < w and 0 <= y < h
InBoundsNoLower(x, y, w, h) == x < w /\ y < h
InBounds(x, y, w, h) == 0 <= x /\ x < w /\ 0 <= y /\ y < h

\* A mask is either a pixel mask, [kind |-> "pixels", w, h, px], px the set of
\* its foreground pixels <<x, y>>, or the description of a region found on an
\* image of ImgW x ImgH pixels, raw_area being the area of that region.
MaskW(mask) == IF mask.kind = "pixels" THEN mask.w ELSE ImgW
MaskH(mask) == IF mask.kind = "pixels" THEN mask.h ELSE ImgH
\* int(mask.sum()) of a 0/1 mask
MaskSum(mask) == IF mask.kind = "pixels" THEN Cardinality(mask.px) ELSE mask.raw_area

\* cv2.getStructuringElement(cv2.MORPH_ELLIPSE, (5, 5)), as offsets from its anchor
Ellipse5 ==
    {<<dx, dy>> \in (-2..2) \X (-2..2) : dy \in {-1, 0, 1} \/ dx = 0}

\* cv2.dilate and cv2.erode with the default border (pixels outside the image
\* do not count)
Dilate(px, kernel, w, h) ==
    {p \in (0..(w - 1)) \X (0..(h - 1)) :
        \E k \in kernel : <<p[1] + k[1], p[2] + k[2]>> \in px}
Erode(px, kernel, w, h) ==
    {p \in (0..(w - 1)) \X (0..(h - 1)) :
        \A k \in kernel :
            LET q == <<p[1] + k[1], p[2] + k[2]>>
            IN  InBounds(q[1], q[2], w, h) => q \in px}

\* cv2.morphologyEx(mask, cv2.MORPH_CLOSE, kernel2, iterations=1)
Closing(mask) ==
    IF mask.kind = "pixels"
    THEN [mask EXCEPT !.px = Erode(Dilate(mask.px, Ellipse5, mask.w, mask.h),
                                   Ellipse5, mask.w, mask.h)]
    ELSE mask

\* _sanity_and_clean(mask): None, or the mask closed
_sanity_and_clean(mask) ==
    LET h == MaskH(mask)
        w == MaskW(mask)
        area == MaskSum(mask)
    IN  IF area < MinArea THEN None
        ELSE IF IntGtFloat(area, FloatMulInt(FloatMulInt(Float07, w), h)) THEN None
        ELSE Closing(mask)

\* tol = max(1, min(80, 2 * sens + 2))
TolUncapped(sens) == Max(1, 2 * sens + 2)
Tol(sens) == Max(1, Min(TolCap, 2 * sens + 2))
\* block = max(11, 2 * (5 + sens // 2) + 1)
BlockEven(sens) == Max(11, 2 * (5 + sens \div 2))
Block(sens) == Max(11, 2 * (5 + sens \div 2) + 1)
\* C = max(2, min(15, 12 - sens // 5))
CConst(sens) == Max(2, Min(15, 12 - sens \div 5))
\* k = max(1, min(5, edge_lock_width))
BarrierK(width) == Max(1, Min(EdgeWidthCap, width))

\* _segment_ff(x, y) on image img under the settings st
_segment_ff(img, x, y, st, env) ==
    LET p0 == <<"preprocess">>
        p1 == IF st.edge_lock = 1 THEN p0 \o <<"Canny", "dilate">> ELSE p0
        p2 == p1 \o <<"floodFill">>
        region == [kind |-> "mask", img |-> img, method |-> FloodFill, x |-> x, y |-> y,
                   p1 |-> Tol(st.sens), p2 |-> 0,
                   barrier |-> IF st.edge_lock = 1 THEN BarrierK(st.edge_width) ELSE 0,
                   clahe |-> st.clahe, grow |-> 0, raw_area |-> env.area]
    IN  IF ~InBounds(x, y, ImgW, ImgH) THEN Returned(FloodFill, None, p0)
        ELSE IF st.edge_lock = 1 /\ env.fail = "Canny" THEN Raised(FloodFill, p0 \o <<"Canny">>)
        ELSE IF st.edge_lock = 1 /\ env.fail = "dilate" THEN Raised(FloodFill, p1)
        \* except cv2.error: return None
        ELSE IF env.fail = "floodFill" THEN Returned(FloodFill, None, p2)
        ELSE Returned(FloodFill, _sanity_and_clean(region), p2)

\* _segment_adaptive_cc(x, y) on image img under the settings st
_segment_adaptive_cc(img, x, y, st, env) ==
    LET p0 == <<"preprocess">>
        p1 == p0 \o <<"adaptiveThreshold">>
        p2 == p1 \o <<"morphologyEx">>
        p3 == p2 \o <<"connectedComponentsWithStats">>
        region == [kind |-> "mask", img |-> img, method |-> AdaptiveCC, x |-> x, y |-> y,
                   p1 |-> Block(st.sens), p2 |-> CConst(st.sens), barrier |-> 0,
                   clahe |-> st.clahe, grow |-> 0, raw_area |-> env.area]
    IN  IF ~InBounds(x, y, ImgW, ImgH) THEN Returned(AdaptiveCC, None, p0)
        ELSE IF env.fail = "adaptiveThreshold" THEN Raised(AdaptiveCC, p1)
        ELSE IF env.fail = "morphologyEx" THEN Raised(AdaptiveCC, p2)
        ELSE IF env.fail = "connectedComponentsWithStats" THEN Raised(AdaptiveCC, p3)
        ELSE IF env.lbl = "far" THEN Returned(AdaptiveCC, None, p3)
        ELSE Returned(AdaptiveCC, _sanity_and_clean(region), p3)

\* if self.method.get() == "Flood Fill": _segment_ff  else: _segment_adaptive_cc
SegmentSelected(m, img, x, y, st, env) ==
    IF m = FloodFill THEN _segment_ff(img, x, y, st, env)
    ELSE _segment_adaptive_cc(img, x, y, st, env)

\* the branch of strategy 3: the method that is not selected
SegmentOpposite(m, img, x, y, st, env) ==
    IF m = FloodFill THEN _segment_adaptive_cc(img, x, y, st, env)
    ELSE _segment_ff(img, x, y, st, env)

\* k = min(25, max(1, abs(steps)))
GrowRadiusUncapped(steps) == Max(1, IF steps < 0 THEN 0 - steps ELSE steps)
GrowRadius(steps) == Min(GrowCap, Max(1, IF steps < 0 THEN 0 - steps ELSE steps))

\* the integer nearest to the square root of n (cvRound of sqrt)
RoundSqrt(n) ==
    IF n = 0 THEN 0 ELSE CHOOSE d \in 1..n : d * d - d < n /\ n <= d * d + d

\* cv2.getStructuringElement(cv2.MORPH_ELLIPSE, (2 * k + 1, 2 * k + 1)), as
\* offsets from its anchor: row dy holds the columns within
\* round(sqrt(k * k - dy * dy)) of the centre
InEllipse(d, k) ==
    (IF d[1] < 0 THEN 0 - d[1] ELSE d[1]) <= RoundSqrt(k * k - d[2] * d[2])
EllipseNoCentre(k) == {d \in (-k..k) \X (-k..k) : InEllipse(d, k) /\ d # <<0, 0>>}
Ellipse(k) == {d \in (-k..k) \X (-k..k) : InEllipse(d, k)}

\* A gray mask, [kind |-> "gray", w, h, px, top], holds the value top (1..255)
\* at the pixels of px and 0 elsewhere.
\* (mask > 0).astype(np.uint8): 1 where the mask is positive, 0 elsewhere
Binarize(mask) ==
    IF mask.kind = "gray"
    THEN [kind |-> "pixels", w |-> mask.w, h |-> mask.h, px |-> mask.px]
    ELSE mask

\* _grow_shrink(mask, steps): the mask made 0/1 (steps = 0), or its dilation
\* (steps > 0) or erosion (steps < 0) by the disk of radius
\* min(25, max(1, |steps|)); for the description of a region, the radius is
\* recorded in it
GrowShrinkSkipped(mask, steps) == mask
_grow_shrink(mask, steps) ==
    IF steps = 0 THEN Binarize(mask)
    ELSE LET k == GrowRadius(steps)
         IN  IF mask.kind = "mask"
             THEN [mask EXCEPT !.grow = IF steps > 0 THEN k ELSE 0 - k]
             ELSE [kind |-> "pixels", w |-> mask.w, h |-> mask.h,
                   px |-> IF steps > 0
                          THEN Dilate(mask.px, Ellipse(k), mask.w, mask.h)
                          ELSE Erode(mask.px, Ellipse(k), mask.w, mask.h)]

\* ------------------------------------------------------------------------
\* Dictionaries
\* ------------------------------------------------------------------------

Range(f) == {f[i] : i \in DOMAIN f}

EmptyDict == <<>>
Has(d, k) == k \in DOMAIN d
Put(d, k, v) == [i \in (DOMAIN d) \cup {k} |-> IF i = k THEN v ELSE d[i]]
Del(d, k) == [i \in (DOMAIN d) \ {k} |-> d[i]]
\* d.setdefault(k, {})
SetDefault(d, k) == IF Has(d, k) THEN d ELSE Put(d, k, EmptyDict)
\* d.setdefault(k, {})[l] = v
PutIn(d, k, l, v) == Put(d, k, Put(SetDefault(d, k)[k], l, v))

\* ------------------------------------------------------------------------
\* _segment_with_fallback
\* ------------------------------------------------------------------------

NoHandler == [op |-> "none", lm |-> "", todo |-> <<>>]

\* no mask has been handed to _sanity_and_clean on its own
NoSan == [done |-> FALSE, mask |-> None, res |-> None]

\* no record has been written on its own
NoRt == [done |-> 0]

\* OneDriveBackup is not used
NoOd == [pc |-> "none"]

\* no threads are started
NoTh == [n |-> 0]

\* the window is not being closed
NoBk == [pc |-> "none"]

\* no sensitivity is handed to the segmenters on its own
NoPm == [sens |-> 0]
NoNav == [phase |-> "none", img |-> NoImage, pts |-> EmptyDict]

\* no mask has been handed to _grow_shrink on its own
NoGs == [done |-> 0, mask |-> None, steps |-> 0, res |-> None, again |-> None]

\* offsets = [(0, 0), (1, 0), (-1, 0), (0, 1), (0, -1), (2, 2), (-2, -2)]
OffsetsReordered == <<<<0, 0>>, <<-1, 0>>, <<1, 0>>, <<0, 1>>, <<0, -1>>, <<2, 2>>, <<-2, -2>>>>
Offsets == <<<<0, 0>>, <<1, 0>>, <<-1, 0>>, <<0, 1>>, <<0, -1>>, <<2, 2>>, <<-2, -2>>>>

\* offsets[1:], the offsets the jitter loop goes through
JitterOffsetsAll == Offsets
JitterOffsets == SubSeq(Offsets, 2, Len(Offsets))

\* relaxed_sens = min(50, original_sens + 10)
RelaxedSens(original_sens) == Min(SensCap, original_sens + SensRelax)

\* the value of fill_sensitivity when strategy 4 has returned:
\* self.fill_sensitivity.set(original_sens)
SensNotRestored(original_sens, relaxed_sens) == relaxed_sens
SensAfterRelaxed(original_sens, relaxed_sens) == original_sens

\* one line of the call history
Logged(r, x, y, sens) ==
    [method |-> r.seg, x |-> x, y |-> y, sens |-> sens, prims |-> r.prims,
     res |-> IF r.raised THEN "raise" ELSE IF r.res = None THEN "None" ELSE "mask"]

\* What follows the segmenter call r: an exception leaves the handler (Tk reports
\* it and the main loop goes on), a mask is returned at once, None goes on to
\* the next attempt.
AfterAttempt(r, next) ==
    IF r.raised
    THEN /\ pc' = "idle"
         /\ outcome' = "raised"
         /\ fb_mask' = None
         /\ handler' = NoHandler
         /\ error' = "cv2.error"
    ELSE IF r.res # None
    THEN /\ pc' = "ret"
         /\ outcome' = "mask"
         /\ fb_mask' = r.res
         /\ UNCHANGED <<handler, error>>
    ELSE /\ pc' = next
         /\ outcome' = IF next = "ret" THEN "None" ELSE outcome
         /\ fb_mask' = None
         /\ UNCHANGED <<handler, error>>

\* Strategy 1: the selected method at the seed
Strategy1 ==
    /\ pc = "s1"
    /\ \E env \in Env :
        LET r == SegmentSelected(method, current_image_path, fb_x, fb_y,
                                 _current_settings_dict, env)
        IN  /\ attempts' = Append(attempts, Logged(r, fb_x, fb_y, fill_sensitivity))
            /\ AfterAttempt(r, "s2")
    /\ jit' = 1
    /\ UNCHANGED <<settings_vars, gui_vars, store_vars, fb_x, fb_y, entry, ops>>

\* Strategy 2: the selected method at the seed moved by the next offset
Strategy2 ==
    /\ pc = "s2"
    /\ \E env \in Env :
        LET new_x == fb_x + JitterOffsets[jit][1]
            new_y == fb_y + JitterOffsets[jit][2]
            r == SegmentSelected(method, current_image_path, new_x, new_y,
                                 _current_settings_dict, env)
        IN  /\ attempts' = Append(attempts, Logged(r, new_x, new_y, fill_sensitivity))
            /\ AfterAttempt(r, IF jit = Len(JitterOffsets) THEN "s3" ELSE "s2")
    /\ jit' = IF jit = Len(JitterOffsets) THEN jit ELSE jit + 1
    /\ UNCHANGED <<settings_vars, gui_vars, store_vars, fb_x, fb_y, entry, ops>>

\* Strategy 3: the opposite method at the seed
Strategy3 ==
    /\ pc = "s3"
    /\ \E env \in Env :
        LET r == SegmentOpposite(method, current_image_path, fb_x, fb_y,
                                 _current_settings_dict, env)
        IN  /\ attempts' = Append(attempts, Logged(r, fb_x, fb_y, fill_sensitivity))
            /\ AfterAttempt(r, "s4")
    /\ UNCHANGED <<settings_vars, gui_vars, store_vars, fb_x, fb_y, jit, entry, ops>>

\* Strategy 4: the selected method at the seed with the sensitivity relaxed;
\* the sensitivity is set back when the segmenter has returned
Strategy4 ==
    /\ pc = "s4"
    /\ \E env \in Env :
        LET original_sens == fill_sensitivity
            relaxed_sens == RelaxedSens(original_sens)
            r == SegmentSelected(method, current_image_path, fb_x, fb_y,
                                 [_current_settings_dict EXCEPT !.sens = relaxed_sens], env)
        IN  /\ attempts' = Append(attempts, Logged(r, fb_x, fb_y, relaxed_sens))
            /\ fill_sensitivity' = IF r.raised THEN relaxed_sens
                                   ELSE SensAfterRelaxed(original_sens, relaxed_sens)
            /\ AfterAttempt(r, "ret")
    /\ UNCHANGED <<method, edge_lock, edge_lock_width, use_clahe, grow_shrink,
                   gui_vars, store_vars, fb_x, fb_y, jit, entry, ops>>

Fallback == Strategy1 \/ Strategy2 \/ Strategy3 \/ Strategy4

\* ------------------------------------------------------------------------
\* Specification of one call of _segment_with_fallback, for every method,
\* sampled sensitivities, and every seed of the image
\* ------------------------------------------------------------------------

SensSamples == {1, DefaultSens, 40, 41, SensCap}

InitFallback ==
    /\ method \in Methods
    /\ fill_sensitivity \in SensSamples
    /\ edge_lock \in BOOLEAN
    /\ edge_lock_width = DefaultEdgeWidth
    /\ use_clahe = TRUE
    /\ grow_shrink = 0
    /\ current_image_path = "A"
    /\ selected_landmark = "LOB"
    /\ landmark_visibility = [l \in Range(Landmarks) |-> TRUE]
    /\ db = EmptyDict
    /\ csv = EmptyDict
    /\ error = "none"
    /\ ops = 0
    /\ dirty = TRUE
    /\ fb_x \in 0..(ImgW - 1)
    /\ fb_y \in 0..(ImgH - 1)
    /\ annotations = [i \in {"A"} |-> [l \in {"LOB"} |-> <<10 * fb_x, 10 * fb_y>>]]
    /\ last_seed = [l \in {"LOB"} |-> <<fb_x, fb_y>>]
    /\ seg_masks = EmptyDict
    /\ lm_settings = [i \in {"A"} |-> [l \in {"LOB"} |-> _current_settings_dict]]
    /\ pc = "s1"
    /\ handler = NoHandler
    /\ jit = 1
    /\ fb_mask = None
    /\ attempts = <<>>
    /\ entry = _current_settings_dict
    /\ outcome = "running"
    /\ san = NoSan
    /\ gs = NoGs
    /\ rt = NoRt
    /\ od = NoOd
    /\ th = NoTh
    /\ bk = NoBk
    /\ rf = "none"
    /\ pm = NoPm
    /\ nav = NoNav

NextFallback == Fallback /\ UNCHANGED <<sanity_vars, dirty>>

SpecFallback == InitFallback /\ [][NextFallback]_vars

\* ------------------------------------------------------------------------
\* Claims about _segment_with_fallback (SpecFallback)
\* ------------------------------------------------------------------------

Opposite(m) == IF m = FloodFill THEN AdaptiveCC ELSE FloodFill

\* the nine attempts the specification prescribes for method m, seed (x, y)
\* and sensitivity s, in order
ExpectedAttempts(m, x, y, s) ==
    << <<m, x, y, s>>,
       <<m, x + 1, y, s>>, <<m, x - 1, y, s>>, <<m, x, y + 1, s>>, <<m, x, y - 1, s>>,
       <<m, x + 2, y + 2, s>>, <<m, x - 2, y - 2, s>>,
       <<Opposite(m), x, y, s>>,
       <<m, x, y, IF s + 10 > 50 THEN 50 ELSE s + 10>> >>

AttemptKey(a) == <<a.method, a.x, a.y, a.sens>>

\* the parameter a segmenter derives from the sensitivity, as the mask records it
DerivedP1(a) == IF a.method = FloodFill THEN Tol(a.sens) ELSE Block(a.sens)

\* C1: the attempts of one call are made in the prescribed order (primary, six
\* jitter offsets, method swap, relaxed sensitivity); the call returns the mask
\* of the first attempt that yields one, attempts nothing after it, and returns
\* None only when all nine attempts yielded None.
C1_AttemptOrder ==
    LET E == ExpectedAttempts(entry.method, fb_x, fb_y, entry.sens)
        n == Len(attempts)
    IN  /\ n <= Len(E)
        /\ \A i \in 1..n : AttemptKey(attempts[i]) = E[i]
        /\ \A i \in 1..(n - 1) : attempts[i].res = "None"
        /\ outcome = "mask" =>
            /\ n >= 1
            /\ attempts[n].res = "mask"
            /\ fb_mask # None
            /\ <<fb_mask.method, fb_mask.x, fb_mask.y, fb_mask.p1>>
                 = <<attempts[n].method, attempts[n].x, attempts[n].y, DerivedP1(attempts[n])>>
        /\ outcome = "None" =>
            /\ n = Len(E)
            /\ \A i \in 1..n : attempts[i].res = "None"
            /\ fb_mask = None

\* a call that got its mask from the ninth attempt, the relaxed one
C1_Witness == outcome = "mask" /\ Len(attempts) = 9 /\ pc = "ret"

\* C2: one call invokes the segmenters at most 9 times, and exactly 9 times
\* when it returns None.
C2_AtMostNineCalls ==
    /\ Len(attempts) <= 9
    /\ outcome = "None" => Len(attempts) = 9

C2_Witness == outcome = "None" /\ pc = "ret" /\ Len(attempts) = 9

\* C3: when the relaxed attempt (the ninth) raises, the sensitivity is back at
\* its value at call entry once the exception has left the call.
C3_RestoredOnException ==
    (outcome = "raised" /\ Len(attempts) = 9) => fill_sensitivity = entry.sens

\* C4: when the call returns normally the settings equal those at entry; the
\* settings other than the sensitivity are never written during the call.
C4_SettingsPreserved ==
    /\ outcome \in {"running", "mask", "None"} =>
        /\ method = entry.method
        /\ _current_settings_dict.edge_lock = entry.edge_lock
        /\ edge_lock_width = entry.edge_width
        /\ _current_settings_dict.clahe = entry.clahe
        /\ grow_shrink = entry.grow
    /\ outcome \in {"mask", "None"} => fill_sensitivity = entry.sens

\* a call that relaxed the sensitivity (entry value below the cap) and returned None
C4_Witness ==
    /\ outcome = "None"
    /\ pc = "ret"
    /\ Len(attempts) = 9
    /\ attempts[9].sens = entry.sens + 10

\* the primitive that raised in an attempt that ended with an exception
RaisedIn(a) == a.prims[Len(a.prims)]

\* C5: a failure of the flood-fill primitive in _segment_ff, or of the
\* adaptive-threshold, opening or labeling primitive in _segment_adaptive_cc,
\* never ends a segmenter call (hence the orchestrator's call) with an exception.
C5_PrimitiveFailureIsNone ==
    \A i \in 1..Len(attempts) :
        attempts[i].res = "raise" =>
            RaisedIn(attempts[i]) \notin {"floodFill", "adaptiveThreshold", "morphologyEx",
                                          "connectedComponentsWithStats"}

OutOfImage(a) == a.x < 0 \/ a.x >= ImgW \/ a.y < 0 \/ a.y >= ImgH

MaxSanW == 6
MaxSanH == 10

\* the pixel of row-major index i of a mask w pixels wide
PixelAt(i, w) == <<i % w, i \div w>>

\* the mask whose foreground is the first ("head") or the last ("tail") a
\* pixels in row-major order, or the first a pixels without those of odd
\* column and odd row ("holed": a 4-connected region with one-pixel holes, as
\* a flood fill leaves around pixels out of tolerance)
ShapedMask(w, h, a, shape) ==
    [kind |-> "pixels", w |-> w, h |-> h,
     px |-> CASE shape = "head" -> {PixelAt(i, w) : i \in 0..(a - 1)}
              [] shape = "tail" -> {PixelAt(i, w) : i \in (w * h - a)..(w * h - 1)}
              [] OTHER -> {p \in {PixelAt(i, w) : i \in 0..(a - 1)} :
                              p[1] % 2 = 0 \/ p[2] % 2 = 0}]

InitSanity ==
    /\ method = FloodFill
    /\ fill_sensitivity = DefaultSens
    /\ edge_lock = TRUE
    /\ edge_lock_width = DefaultEdgeWidth
    /\ use_clahe = TRUE
    /\ grow_shrink = 0
    /\ current_image_path = "A"
    /\ selected_landmark = "LOB"
    /\ landmark_visibility = [l \in Range(Landmarks) |-> TRUE]
    /\ db = EmptyDict
    /\ csv = EmptyDict
    /\ error = "none"
    /\ ops = 0
    /\ dirty = FALSE
    /\ annotations = EmptyDict
    /\ last_seed = EmptyDict
    /\ seg_masks = EmptyDict
    /\ lm_settings = EmptyDict
    /\ pc = "idle"
    /\ handler = NoHandler
    /\ fb_x = 0
    /\ fb_y = 0
    /\ jit = 1
    /\ fb_mask = None
    /\ attempts = <<>>
    /\ entry = _current_settings_dict
    /\ outcome = "none"
    /\ \E w \in 1..MaxSanW, h \in 1..MaxSanH :
        \E a \in 0..(w * h), shape \in {"head", "tail", "holed"} :
            san = [done |-> FALSE, mask |-> ShapedMask(w, h, a, shape), res |-> None]
    /\ gs = NoGs
    /\ rt = NoRt
    /\ od = NoOd
    /\ th = NoTh
    /\ bk = NoBk
    /\ rf = "none"
    /\ pm = NoPm
    /\ nav = NoNav

\* region = self._sanity_and_clean(region)
SanityAndClean ==
    /\ ~san.done
    /\ san.mask # None
    /\ san' = [san EXCEPT !.done = TRUE, !.res = _sanity_and_clean(san.mask)]
    /\ UNCHANGED <<settings_vars, gui_vars, store_vars, call_vars, event_vars, gs, rt, od, th, bk, rf, pm, nav>>

\* positions of the Grow / Shrink scale (-10 to 30)
StoredSteps == {-10, -2, 0, 3, 10}

\* _resegment_for once the segmenter has returned a mask:
\* mask = self._grow_shrink(mask, self.grow_shrink.get()), the mask written
\* to seg_masks
StoreGrown ==
    /\ san.done
    /\ san.res # None
    /\ gs = NoGs
    /\ \E steps \in StoredSteps :
          gs' = [done |-> 1, mask |-> san.res, steps |-> steps,
                 res |-> _grow_shrink(san.res, steps), again |-> None]
    /\ UNCHANGED <<settings_vars, gui_vars, store_vars, call_vars, event_vars, san, rt, od, th, bk, rf, pm, nav>>

NextSanity == SanityAndClean \/ StoreGrown

SpecSanity == InitSanity /\ [][NextSanity]_vars

\* C7: _sanity_and_clean returns None exactly when the area a of the mask is
\* below 30 or above 0.7 * w * h, that is when 10 * a > 7 * w * h; a = 30 and
\* 10 * a = 7 * w * h are accepted; the shape plays no part.
C7_SanityExactBounds ==
    san.done =>
        LET a == Cardinality(san.mask.px)
            w == san.mask.w
            h == san.mask.h
        IN  (san.res = None) <=> (a < 30 \/ 10 * a > 7 * w * h)

\* C18: a mask returned by _sanity_and_clean, hence by _segment_ff and
\* _segment_adaptive_cc, has a foreground area a with 30 <= a and
\* a <= 0.7 * w * h.
C18_ReturnedAreaInBounds ==
    (san.done /\ san.res # None) =>
        LET a == Cardinality(san.res.px)
        IN  MinArea <= a /\ 10 * a <= 7 * san.res.w * san.res.h

\* ------------------------------------------------------------------------
\* Text: json.dumps / json.loads of the database, repr / ast.literal_eval of
\* the CSV.  A text is a sequence of characters.  A Python value of a record
\* is [t |-> "float", v |-> tenths], [t |-> "int", v |-> n] or
\* [t |-> "str", v |-> characters].
\* ------------------------------------------------------------------------

PyFloat(tenths) == [t |-> "float", v |-> tenths]
PyInt(n) == [t |-> "int", v |-> n]
PyStr(chars) == [t |-> "str", v |-> chars]

\* what a text that cannot be parsed yields (the exception of the parser)
ParseError == <<[t |-> "error", v |-> 0]>>

DigitChars == <<"0", "1", "2", "3", "4", "5", "6", "7", "8", "9">>
IsDigit(c) == \E i \in 1..10 : DigitChars[i] = c
DigitVal(c) == (CHOOSE i \in 1..10 : DigitChars[i] = c) - 1

\* the characters of the strings the program writes
Chars(str) ==
    CASE str = "FF" -> <<"F", "F">>
      [] str = "ACC" -> <<"A", "C", "C">>
      [] str = "Flood Fill" -> <<"F", "l", "o", "o", "d", " ", "F", "i", "l", "l">>
      [] OTHER -> <<"?">>

RECURSIVE FormatNat(_)
FormatNat(n) ==
    IF n < 10 THEN <<DigitChars[n + 1]>>
    ELSE FormatNat(n \div 10) \o <<DigitChars[(n % 10) + 1]>>

\* repr of an int
FormatInt(n) == IF n < 0 THEN <<"-">> \o FormatNat(0 - n) ELSE FormatNat(n)

\* repr of a float with one decimal, given in tenths: 35 is "3.5", 30 is "3.0"
FormatFloatWhole(tenths) == FormatInt(tenths \div 10)
FormatFloat(tenths) ==
    LET a == IF tenths < 0 THEN 0 - tenths ELSE tenths
    IN  (IF tenths < 0 THEN <<"-">> ELSE <<>>)
        \o FormatNat(a \div 10) \o <<".">> \o <<DigitChars[(a % 10) + 1]>>

\* a scalar as text, strings between the quote character q
FormatValue(val, q) ==
    CASE val.t = "float" -> FormatFloat(val.v)
      [] val.t = "int" -> FormatInt(val.v)
      [] val.t = "str" -> <<q>> \o val.v \o <<q>>

\* a list as text: "[" item ", " item ... "]"
RECURSIVE FormatItems(_, _)
FormatItems(vals, q) ==
    IF Len(vals) = 0 THEN <<>>
    ELSE IF Len(vals) = 1 THEN FormatValue(vals[1], q)
    ELSE FormatValue(vals[1], q) \o <<",", " ">> \o FormatItems(Tail(vals), q)

FormatList(vals, q) == <<"[">> \o FormatItems(vals, q) \o <<"]">>

\* json.dumps(list) and repr(list)
JsonDumps(vals) == FormatList(vals, "\"")
Repr(vals) == FormatList(vals, "'")


IsParseError(vals) == Len(vals) = 1 /\ vals[1].t = "error"

\* str.strip() of a token
RECURSIVE Strip(_)
Strip(chars) ==
    IF Len(chars) = 0 THEN chars
    ELSE IF chars[1] = " " THEN Strip(Tail(chars))
    ELSE IF chars[Len(chars)] = " " THEN Strip(SubSeq(chars, 1, Len(chars) - 1))
    ELSE chars

\* a decimal number without sign: digits, no leading zero
IsNat(chars) ==
    /\ Len(chars) >= 1
    /\ \A i \in 1..Len(chars) : IsDigit(chars[i])
    /\ Len(chars) > 1 => chars[1] # "0"

RECURSIVE NatVal(_)
NatVal(chars) ==
    IF Len(chars) = 0 THEN 0
    ELSE NatVal(SubSeq(chars, 1, Len(chars) - 1)) * 10 + DigitVal(chars[Len(chars)])

\* one scalar literal: a quoted string, an int, or a float with one decimal
ParseScalar(tok, quotes) ==
    LET n == Len(tok)
        neg == n >= 1 /\ tok[1] = "-"
        body == IF neg THEN Tail(tok) ELSE tok
        m == Len(body)
        sign == IF neg THEN -1 ELSE 1
    IN  IF n >= 2 /\ tok[1] \in quotes /\ tok[n] = tok[1]
           /\ \A i \in 2..(n - 1) : tok[i] # tok[1]
        THEN PyStr(SubSeq(tok, 2, n - 1))
        ELSE IF IsNat(body) THEN PyInt(sign * NatVal(body))
        ELSE IF m >= 3 /\ body[m - 1] = "." /\ IsDigit(body[m])
                /\ IsNat(SubSeq(body, 1, m - 2))
        THEN PyFloat(sign * (10 * NatVal(SubSeq(body, 1, m - 2)) + DigitVal(body[m])))
        ELSE [t |-> "error", v |-> 0]

\* the items of a list literal, split at the commas outside strings; q is the
\* quote of the string the scan is in, "" outside strings
RECURSIVE SplitItems(_, _, _, _, _)
SplitItems(text, i, item, q, quotes) ==
    IF i > Len(text) THEN <<item>>
    ELSE LET c == text[i]
         IN  IF q # ""
             THEN SplitItems(text, i + 1, Append(item, c), IF c = q THEN "" ELSE q, quotes)
             ELSE IF c = ","
             THEN <<item>> \o SplitItems(text, i + 1, <<>>, "", quotes)
             ELSE SplitItems(text, i + 1, Append(item, c),
                             IF c \in quotes THEN c ELSE "", quotes)

\* a list of scalars from its text, or ParseError
ParseList(text, quotes) ==
    LET n == Len(text)
    IN  IF n < 2 \/ text[1] # "[" \/ text[n] # "]" THEN ParseError
        ELSE LET inner == SubSeq(text, 2, n - 1)
             IN  IF Strip(inner) = <<>> THEN <<>>
                 ELSE LET items == SplitItems(inner, 1, <<>>, "", quotes)
                          vals == [i \in 1..Len(items) |->
                                      ParseScalar(Strip(items[i]), quotes)]
                      IN  IF \E i \in 1..Len(vals) : vals[i].t = "error"
                          THEN ParseError
                          ELSE vals

\* json.loads and ast.literal_eval of the text of a list
JsonLoads(text) == ParseList(text, {"\""})
LiteralEval(text) == ParseList(text, {"'", "\""})

\* float(v) and int(v) of a parsed number, in tenths and in units
FloatOf(val) == IF val.t = "float" THEN val.v ELSE 10 * val.v
IntOf(val) ==
    IF val.t = "int" THEN val.v
    ELSE IF val.v >= 0 THEN val.v \div 10 ELSE 0 - ((0 - val.v) \div 10)

\* ------------------------------------------------------------------------
\* Persistence: the database row and the CSV row of an image
\* ------------------------------------------------------------------------

\* method_code = "FF" if st["method"] == "Flood Fill" else "ACC"
MethodCode(m) == IF m = FloodFill THEN "FF" ELSE "ACC"
\* method_code = str(arr[2]);
\* "Flood Fill" if method_code in ("FF", "Flood Fill") else "Adaptive CC"
MethodOfCode(val) ==
    IF val.t = "str" /\ (val.v = Chars("FF") \/ val.v = Chars("Flood Fill"))
    THEN FloodFill
    ELSE AdaptiveCC

\* _get_annotations: the points of the current image
_get_annotations(ann, cur) == IF Has(ann, cur) THEN ann[cur] ELSE EmptyDict

\* _prepare_landmark_data: the record of each annotated landmark; cs is the
\* dict of the current UI settings
_prepare_landmark_data(ann, lms, cur, cs) ==
    LET pts == _get_annotations(ann, cur)
        per_img_settings == IF Has(lms, cur) THEN lms[cur] ELSE EmptyDict
    IN  [lm \in {l \in Range(Landmarks) : Has(pts, l)} |->
            IF lm \in Special
            THEN LET st == IF Has(per_img_settings, lm) THEN per_img_settings[lm] ELSE cs
                 IN  <<PyFloat(pts[lm][1]), PyFloat(pts[lm][2]),
                       PyStr(Chars(MethodCode(st.method))), PyInt(st.sens),
                       PyInt(st.edge_lock), PyInt(st.edge_width), PyInt(st.clahe),
                       PyInt(st.grow)>>
            ELSE <<PyFloat(pts[lm][1]), PyFloat(pts[lm][2])>>]

\* _auto_save_to_db and the database part of save_annotations: the row of the
\* current image is inserted or replaced, its data being
\* json.dumps(landmark_data), kept here landmark by landmark
SaveToDb(dbv, ann, lms, cur, cs) ==
    IF cur = NoImage THEN dbv
    ELSE LET landmark_data == _prepare_landmark_data(ann, lms, cur, cs)
         IN  Put(dbv, cur, [lm \in DOMAIN landmark_data |-> JsonDumps(landmark_data[lm])])

\* _export_db_to_csv: one CSV row per database row, with the cell
\* repr(landmark_data[lm]) for each landmark that has data in json.loads(data)
_export_db_to_csv(dbv) ==
    [img \in DOMAIN dbv |->
        [lm \in {l \in DOMAIN dbv[img] : Len(JsonLoads(dbv[img][l])) > 0} |->
            Repr(JsonLoads(dbv[img][lm]))]]

\* save_annotations: the database row, then the CSV when more than 20 s
\* passed since the last export
ExportIfDue(dbv, csvv, due) == IF due THEN _export_db_to_csv(dbv) ELSE csvv

\* the settings dict load_points builds from a record of 8 fields
SettingsOfRecord(arr) ==
    [method |-> MethodOfCode(arr[3]), sens |-> IntOf(arr[4]), edge_lock |-> IntOf(arr[5]),
     edge_width |-> IntOf(arr[6]), clahe |-> IntOf(arr[7]), grow |-> IntOf(arr[8])]

\* the cells of a CSV row that load_points goes on with: text between "[" and
\* "]" that ast.literal_eval parses and whose first two items are numbers
ReadableCells(row) ==
    {lm \in DOMAIN row :
        LET arr == LiteralEval(row[lm])
        IN  /\ ~IsParseError(arr)
            /\ Len(arr) >= 2
            /\ arr[1].t # "str"
            /\ arr[2].t # "str"}

\* pts of load_points: (float(arr[0]), float(arr[1])) for each readable cell
PointsOfRow(row) ==
    [lm \in ReadableCells(row) |->
        <<FloatOf(LiteralEval(row[lm])[1]), FloatOf(LiteralEval(row[lm])[2])>>]

\* the landmarks for which load_points builds a settings dict: LOB and ROB
\* with a record of 8 fields or more
SettingsCells(row) ==
    {lm \in ReadableCells(row) : lm \in Special /\ Len(LiteralEval(row[lm])) >= 8}

\* ------------------------------------------------------------------------
\* GUI handlers
\* ------------------------------------------------------------------------

\* number of user events of a run
MaxOps == 3

\* the points the user clicks, in tenths of a pixel (x, y = round(xi, 1), ...)
ClickPoints == {<<5, 5>>, <<35, 42>>}

\* (int(x), int(y)) of a point in tenths of a pixel
SeedOf(p) == <<p[1] \div 10, p[2] \div 10>>

Idle == pc = "idle" /\ ops < MaxOps

\* the settings at entry of a call, while there is none: the defaults
NoEntry == SettingsDict(FloodFill, DefaultSens, TRUE, DefaultEdgeWidth, TRUE, 0)

\* the call history of a handler that makes no call of _segment_with_fallback
NoCall ==
    /\ fb_x' = 0
    /\ fb_y' = 0
    /\ jit' = 1
    /\ fb_mask' = None
    /\ attempts' = <<>>
    /\ entry' = NoEntry
    /\ outcome' = "none"

\* the handler returns to the Tk main loop
Done ==
    /\ pc' = "idle"
    /\ handler' = NoHandler
    /\ NoCall

\* _resegment_for(h.lm) up to its call of _segment_with_fallback, or to its
\* early return, with the current image cur, the seeds ls and the UI settings cs
_resegment_for(h, cur, ls, cs) ==
    /\ handler' = h
    /\ jit' = 1
    /\ fb_mask' = None
    /\ attempts' = <<>>
    /\ entry' = cs
    /\ pc' = IF cur # NoImage /\ Has(ls, h.lm) THEN "s1" ELSE "ret"
    /\ outcome' = IF cur # NoImage /\ Has(ls, h.lm) THEN "running" ELSE "skipped"
    /\ fb_x' = IF Has(ls, h.lm) THEN ls[h.lm][1] ELSE 0
    /\ fb_y' = IF Has(ls, h.lm) THEN ls[h.lm][2] ELSE 0

\* _on_click: the selected landmark is placed at p
OnClick(p) ==
    /\ Idle
    /\ current_image_path # NoImage
    /\ selected_landmark # ""
    /\ LET lm == selected_landmark
           cur == current_image_path
       IN  /\ annotations' = PutIn(annotations, cur, lm, p)
           /\ IF lm \in Special
              THEN /\ last_seed' = Put(last_seed, lm, SeedOf(p))
                   /\ lm_settings' = PutIn(lm_settings, cur, lm, _current_settings_dict)
                   /\ _resegment_for([op |-> "click", lm |-> lm, todo |-> <<>>], cur,
                                     last_seed', _current_settings_dict)
                   /\ UNCHANGED db
              ELSE /\ db' = SaveToDb(db, annotations', lm_settings, cur,
                                     _current_settings_dict)
                   /\ Done
                   /\ UNCHANGED <<last_seed, lm_settings>>
    \* set by _on_click, cleared again by _auto_save_to_db
    /\ dirty' = (selected_landmark \in Special)
    /\ error' = "none"
    /\ ops' = ops + 1
    /\ nav' = [phase |-> "changed", img |-> current_image_path,
                pts |-> annotations'[current_image_path]]
    /\ UNCHANGED <<settings_vars, current_image_path, selected_landmark,
                   landmark_visibility, seg_masks, csv, san, gs, rt, od, th, bk, rf, pm>>

\* _delete_current_landmark: the annotation of the selected landmark is removed
OnDelete ==
    /\ Idle
    /\ selected_landmark # ""
    /\ Has(annotations, current_image_path)
    /\ LET lm == selected_landmark
           cur == current_image_path
       IN  /\ annotations' = [annotations EXCEPT ![cur] = Del(@, lm)]
           /\ IF lm \in Special
              THEN /\ lm_settings' = PutIn(lm_settings, cur, lm, _current_settings_dict)
                   /\ _resegment_for([op |-> "delete", lm |-> lm, todo |-> <<>>], cur,
                                     last_seed, _current_settings_dict)
                   /\ UNCHANGED db
              ELSE /\ db' = SaveToDb(db, annotations', lm_settings, cur,
                                     _current_settings_dict)
                   /\ Done
                   /\ UNCHANGED lm_settings
    \* set by _delete_current_landmark, cleared again by _auto_save_to_db
    /\ dirty' = (selected_landmark \in Special \/ current_image_path = NoImage)
    /\ error' = "none"
    /\ ops' = ops + 1
    /\ nav' = [phase |-> "changed", img |-> current_image_path,
                pts |-> annotations'[current_image_path]]
    /\ UNCHANGED <<settings_vars, current_image_path, selected_landmark,
                   landmark_visibility, last_seed, seg_masks, csv, san, gs, rt, od, th, bk, rf, pm>>

\* _resegment_selected_if_needed, the command of the CLAHE and edge-lock check
\* buttons and of the sensitivity and edge-lock-width scales, once the widget
\* has set its variable
_resegment_selected_if_needed ==
    /\ IF selected_landmark \in Special
       THEN /\ lm_settings' = PutIn(lm_settings, current_image_path, selected_landmark,
                                    _current_settings_dict')
            /\ _resegment_for([op |-> "reseg", lm |-> selected_landmark, todo |-> <<>>],
                              current_image_path, last_seed, _current_settings_dict')
       ELSE /\ Done
            /\ UNCHANGED lm_settings
    /\ error' = "none"
    /\ ops' = ops + 1
    /\ UNCHANGED <<current_image_path, selected_landmark, landmark_visibility,
                   annotations, last_seed, seg_masks, store_vars, sanity_vars, dirty>>

\* the values the model moves the scales to
SensChoices == {DefaultSens, 45}
EdgeWidthChoices == {DefaultEdgeWidth, 4}
GrowChoices == {0, 3, -2}

SetSensitivity(v) ==
    /\ Idle
    /\ v # fill_sensitivity
    /\ fill_sensitivity' = v
    /\ UNCHANGED <<method, edge_lock, edge_lock_width, use_clahe, grow_shrink>>
    /\ _resegment_selected_if_needed

SetEdgeLockWidth(v) ==
    /\ Idle
    /\ v # edge_lock_width
    /\ edge_lock_width' = v
    /\ UNCHANGED <<method, fill_sensitivity, edge_lock, use_clahe, grow_shrink>>
    /\ _resegment_selected_if_needed

ToggleEdgeLock ==
    /\ Idle
    /\ edge_lock' = ~edge_lock
    /\ UNCHANGED <<method, fill_sensitivity, edge_lock_width, use_clahe, grow_shrink>>
    /\ _resegment_selected_if_needed

ToggleClahe ==
    /\ Idle
    /\ use_clahe' = ~use_clahe
    /\ UNCHANGED <<method, fill_sensitivity, edge_lock, edge_lock_width, grow_shrink>>
    /\ _resegment_selected_if_needed

\* _change_method_to_ff and _change_method_to_acc
ChangeMethod(m) ==
    /\ Idle
    /\ m # method
    /\ method' = m
    /\ Done
    /\ error' = "none"
    /\ ops' = ops + 1
    /\ UNCHANGED <<fill_sensitivity, edge_lock, edge_lock_width, use_clahe, grow_shrink,
                   gui_vars, store_vars, sanity_vars, dirty>>

\* the Grow / Shrink scale: its command calls _apply_grow_shrink_only_for,
\* which AnnotationGUI does not define
SetGrowShrink(v) ==
    /\ Idle
    /\ v # grow_shrink
    /\ grow_shrink' = v
    /\ Done
    /\ error' = "AttributeError"
    /\ ops' = ops + 1
    /\ UNCHANGED <<method, fill_sensitivity, edge_lock, edge_lock_width, use_clahe,
                   gui_vars, store_vars, sanity_vars, dirty>>

\* the Re-segment button: _resegment_for(self.selected_landmark.get())
ResegmentButton ==
    /\ Idle
    /\ _resegment_for([op |-> "button", lm |-> selected_landmark, todo |-> <<>>],
                      current_image_path, last_seed, _current_settings_dict)
    /\ error' = "none"
    /\ ops' = ops + 1
    /\ UNCHANGED <<settings_vars, gui_vars, store_vars, sanity_vars, dirty>>

\* _on_landmark_selected after another landmark was selected:
\* _apply_settings_to_ui_for sets the UI to the stored settings, if any
SelectLandmark(lm) ==
    /\ Idle
    /\ lm # selected_landmark
    /\ selected_landmark' = lm
    /\ LET per_img == IF Has(lm_settings, current_image_path)
                      THEN lm_settings[current_image_path] ELSE EmptyDict
       IN  IF Has(per_img, lm)
           THEN LET st == per_img[lm]
                IN  /\ method' = st.method
                    /\ fill_sensitivity' = st.sens
                    /\ edge_lock' = (st.edge_lock # 0)
                    /\ edge_lock_width' = st.edge_width
                    /\ use_clahe' = (st.clahe # 0)
                    /\ grow_shrink' = st.grow
           ELSE UNCHANGED settings_vars
    /\ Done
    /\ error' = "none"
    /\ ops' = ops + 1
    /\ UNCHANGED <<current_image_path, landmark_visibility, annotations, last_seed,
                   seg_masks, lm_settings, store_vars, sanity_vars, dirty>>

\* _set_selected_visibility (the Left and Right keys)
SetVisibility(visible) ==
    /\ Idle
    /\ selected_landmark # ""
    /\ landmark_visibility[selected_landmark] # visible
    /\ landmark_visibility' = [landmark_visibility EXCEPT ![selected_landmark] = visible]
    /\ Done
    /\ error' = "none"
    /\ ops' = ops + 1
    /\ UNCHANGED <<settings_vars, current_image_path, selected_landmark, annotations,
                   last_seed, seg_masks, lm_settings, store_vars, sanity_vars, dirty>>

\* the loop of load_points over ("LOB", "ROB"): the seeds of the landmarks of
\* todo that are in pts are set, up to the first visible one, for which
\* _resegment_for is called
RECURSIVE LoadSeeds(_, _, _)
LoadSeeds(todo, ls, pts) ==
    IF todo = <<>>
    THEN [ls |-> ls, lm |-> "", rest |-> <<>>]
    ELSE LET lm == Head(todo)
         IN  IF ~Has(pts, lm)
             THEN LoadSeeds(Tail(todo), ls, pts)
             ELSE IF landmark_visibility[lm]
                  THEN [ls |-> Put(ls, lm, SeedOf(pts[lm])), lm |-> lm, rest |-> Tail(todo)]
                  ELSE LoadSeeds(Tail(todo), Put(ls, lm, SeedOf(pts[lm])), pts)

\* the rest of load_points and of load_image_from_path from the loop over
\* ("LOB", "ROB") on: a call of _resegment_for, or the end of the handler, where
\* _update_path_var sets dirty and the first landmark is selected; every caller
\* has cleared dirty before
LoadLoop(todo, ls, pts, cur) ==
    LET r == LoadSeeds(todo, ls, pts)
    IN  /\ last_seed' = r.ls
        /\ IF r.lm # ""
           THEN /\ _resegment_for([op |-> "load", lm |-> r.lm, todo |-> r.rest], cur, r.ls,
                                  _current_settings_dict)
                /\ dirty' = FALSE
                /\ UNCHANGED selected_landmark
           ELSE /\ Done
                /\ dirty' = TRUE
                /\ selected_landmark' = Landmarks[1]

\* the landmarks load_points goes through after the points are read
SpecialOrder == <<"LOB", "ROB">>

\* load_image_from_path(path), reading the CSV csvv
load_image_from_path(path, csvv) ==
    /\ current_image_path' = path
    /\ IF Has(csvv, path)
       THEN LET row == csvv[path]
                pts == PointsOfRow(row)
                per_img == IF Has(lm_settings, path) THEN lm_settings[path] ELSE EmptyDict
                loaded == SettingsCells(row)
            IN  /\ lm_settings' =
                       Put(lm_settings, path,
                           [lm \in DOMAIN per_img \cup loaded |->
                               IF lm \in loaded
                               THEN SettingsOfRecord(LiteralEval(row[lm]))
                               ELSE per_img[lm]])
                /\ annotations' = Put(annotations, path, pts)
                /\ LoadLoop(SpecialOrder, EmptyDict, pts, path)
       ELSE /\ lm_settings' = SetDefault(lm_settings, path)
            /\ annotations' = Put(annotations, path, EmptyDict)
            /\ last_seed' = EmptyDict
            /\ Done
            /\ dirty' = TRUE
            /\ selected_landmark' = Landmarks[1]

\* load_image with the file path chosen in the dialog: when dirty, the user is
\* asked whether to save first (save_annotations; due says whether more than
\* 20 s passed since the last export)
LoadImage(path, save, due) ==
    /\ Idle
    /\ db' = IF dirty /\ save /\ current_image_path # NoImage
             THEN SaveToDb(db, annotations, lm_settings, current_image_path,
                           _current_settings_dict)
             ELSE db
    /\ csv' = IF dirty /\ save /\ current_image_path # NoImage
              THEN ExportIfDue(db', csv, due)
              ELSE csv
    /\ load_image_from_path(path, csv')
    /\ error' = "none"
    /\ ops' = ops + 1
    /\ UNCHANGED <<settings_vars, landmark_visibility, seg_masks, sanity_vars>>

\* the position of the current image in the sorted directory
IndexOf(path) == CHOOSE i \in 1..Len(Images) : Images[i] = path

\* _next_image (step = 1) and _prev_image (step = -1) in directory mode:
\* save_annotations, then the neighbour is loaded if there is one; due says
\* whether more than 20 s passed since the last export
StepImage(step, due) ==
    /\ Idle
    /\ current_image_path # NoImage
    /\ db' = SaveToDb(db, annotations, lm_settings, current_image_path,
                      _current_settings_dict)
    /\ csv' = ExportIfDue(db', csv, due)
    /\ LET idx == IndexOf(current_image_path) + step
       IN  IF idx \in 1..Len(Images)
           THEN load_image_from_path(Images[idx], csv')
           ELSE /\ Done
                /\ dirty' = FALSE
                /\ UNCHANGED <<current_image_path, selected_landmark, annotations,
                               last_seed, lm_settings>>
    /\ nav' = IF nav.phase = "changed" /\ current_image_path' # nav.img
              THEN [nav EXCEPT !.phase = "away"]
              ELSE IF nav.phase = "away" /\ current_image_path' = nav.img
                   THEN [nav EXCEPT !.phase = "back"]
                   ELSE nav
    /\ error' = "none"
    /\ ops' = ops + 1
    /\ UNCHANGED <<settings_vars, landmark_visibility, seg_masks, san, gs, rt, od, th, bk, rf, pm>>

NextImage == \E due \in BOOLEAN : StepImage(1, due)
PrevImage == \E due \in BOOLEAN : StepImage(-1, due)

\* save_annotations from the Save button
Save ==
    /\ Idle
    /\ current_image_path # NoImage
    /\ \E due \in BOOLEAN :
          /\ db' = SaveToDb(db, annotations, lm_settings, current_image_path,
                            _current_settings_dict)
          /\ csv' = ExportIfDue(db', csv, due)
    /\ Done
    /\ dirty' = FALSE
    /\ error' = "none"
    /\ ops' = ops + 1
    /\ UNCHANGED <<settings_vars, gui_vars, sanity_vars>>

\* the rest of _resegment_for after _segment_with_fallback has returned (or
\* after its early return), and the rest of the handler that called it
ResegmentReturn ==
    /\ pc = "ret"
    /\ handler.op # "none"
    /\ seg_masks' = IF outcome = "mask"
                    THEN PutIn(seg_masks, current_image_path, handler.lm,
                               _grow_shrink(fb_mask, grow_shrink))
                    ELSE seg_masks
    /\ IF handler.op = "load"
       THEN /\ LoadLoop(handler.todo, last_seed, annotations[current_image_path],
                        current_image_path)
            /\ UNCHANGED db
       ELSE /\ Done
            /\ db' = IF handler.op \in {"click", "delete"}
                     THEN SaveToDb(db, annotations, lm_settings, current_image_path,
                                   _current_settings_dict)
                     ELSE db
            /\ dirty' = IF handler.op \in {"click", "delete"}
                        THEN current_image_path = NoImage
                        ELSE dirty
            /\ UNCHANGED <<selected_landmark, last_seed>>
    /\ rf' = CASE outcome = "None" -> "warned"
                [] outcome = "mask" -> "stored"
                [] OTHER -> "none"
    /\ UNCHANGED <<settings_vars, current_image_path, landmark_visibility, annotations,
                   lm_settings, csv, error, ops, san, gs, rt, od, th, bk, pm, nav>>

\* ------------------------------------------------------------------------
\* The annotator: one image of the directory is open, nothing is annotated
\* ------------------------------------------------------------------------

Init ==
    /\ method = FloodFill
    /\ fill_sensitivity = DefaultSens
    /\ edge_lock = TRUE
    /\ edge_lock_width = DefaultEdgeWidth
    /\ use_clahe = TRUE
    /\ grow_shrink = 0
    /\ current_image_path = Images[1]
    /\ selected_landmark = Landmarks[1]
    /\ landmark_visibility = [lm \in Range(Landmarks) |-> TRUE]
    /\ annotations = Put(EmptyDict, Images[1], EmptyDict)
    /\ last_seed = EmptyDict
    /\ seg_masks = EmptyDict
    /\ lm_settings = Put(EmptyDict, Images[1], EmptyDict)
    /\ db = EmptyDict
    /\ csv = EmptyDict
    /\ pc = "idle"
    /\ handler = NoHandler
    /\ fb_x = 0
    /\ fb_y = 0
    /\ jit = 1
    /\ fb_mask = None
    /\ attempts = <<>>
    /\ entry = NoEntry
    /\ outcome = "none"
    /\ error = "none"
    /\ ops = 0
    /\ dirty = TRUE
    /\ san = NoSan
    /\ gs = NoGs
    /\ rt = NoRt
    /\ od = NoOd
    /\ th = NoTh
    /\ bk = NoBk
    /\ rf = "none"
    /\ pm = NoPm
    /\ nav = NoNav

Next ==
    \/ \E p \in ClickPoints : OnClick(p)
    \/ OnDelete
    \/ \E v \in SensChoices : SetSensitivity(v)
    \/ \E v \in EdgeWidthChoices : SetEdgeLockWidth(v)
    \/ ToggleEdgeLock
    \/ ToggleClahe
    \/ \E m \in Methods : ChangeMethod(m)
    \/ \E v \in GrowChoices : SetGrowShrink(v)
    \/ ResegmentButton
    \/ \E lm \in Range(Landmarks) : SelectLandmark(lm)
    \/ \E b \in BOOLEAN : SetVisibility(b)
    \/ \E path \in Range(Images), save, due \in BOOLEAN : LoadImage(path, save, due)
    \/ NextImage
    \/ PrevImage
    \/ Save
    \/ NextFallback
    \/ ResegmentReturn

Spec == Init /\ [][Next]_vars

\* ------------------------------------------------------------------------
\* Claims about the mask store (Spec)
\* ------------------------------------------------------------------------

HasMask(sm, img, lm) == Has(sm, img) /\ Has(sm[img], lm)

\* the keys (image, landmark) under which sm holds a mask
MaskKeys(sm) == {k \in (DOMAIN sm) \X Range(Landmarks) : Has(sm[k[1]], k[2])}

\* _resegment_for is about to return to its caller after a call of
\* _segment_with_fallback that returned
RunReturned == pc = "ret" /\ handler.op # "none" /\ outcome \in {"mask", "None"}

\* m is what the run that has just returned makes of the candidate it accepted:
\* found on the current image by the last attempt, at the seed of the landmark
\* moved by one of the offsets, under the current settings, grown or shrunk by
\* the current grow/shrink value
FromThisRun(m) ==
    /\ outcome = "mask"
    /\ Has(last_seed, handler.lm)
    /\ LET a == attempts[Len(attempts)]
           seed == last_seed[handler.lm]
       IN  /\ a.res = "mask"
           /\ m.img = current_image_path
           /\ <<m.method, m.x, m.y, m.p1>> = <<a.method, a.x, a.y, DerivedP1(a)>>
           /\ \E i \in 1..Len(Offsets) :
                 <<m.x, m.y>> = <<seed[1] + Offsets[i][1], seed[2] + Offsets[i][2]>>
           /\ a.sens \in {fill_sensitivity, RelaxedSens(fill_sensitivity)}
           /\ m.clahe = _current_settings_dict.clahe
           /\ m.grow = grow_shrink

\* C8: when a run of _resegment_for accepts a candidate, the mask stored for
\* (current image, landmark) from then on is that run's (the candidate grown or
\* shrunk) and no other entry of the store changes; when the run ends with
\* None, and in every other step, the store is left as it was.
C8_StoreFollowsRun ==
    [][LET cur == current_image_path
           lm == handler.lm
       IN  IF RunReturned /\ outcome = "mask"
           THEN /\ HasMask(seg_masks', cur, lm)
                /\ FromThisRun(seg_masks'[cur][lm])
                /\ MaskKeys(seg_masks') = MaskKeys(seg_masks) \cup {<<cur, lm>>}
                /\ \A k \in MaskKeys(seg_masks) \ {<<cur, lm>>} :
                      seg_masks'[k[1]][k[2]] = seg_masks[k[1]][k[2]]
           ELSE seg_masks' = seg_masks]_vars

\* a run has accepted a candidate while the store holds, for the same image
\* and landmark, a mask of an earlier run with another seed
C8_Witness ==
    /\ RunReturned
    /\ outcome = "mask"
    /\ HasMask(seg_masks, current_image_path, handler.lm)
    /\ seg_masks[current_image_path][handler.lm].x # fb_mask.x

\* C8 as stated: after every run of _resegment_for that ran the segmentation,
\* the mask held for (current image, landmark) is the one of that run.
C8_AlwaysThisRun ==
    [][RunReturned /\ HasMask(seg_masks', current_image_path, handler.lm)
          => FromThisRun(seg_masks'[current_image_path][handler.lm])]_vars

\* C9: when the deletion of the point of LOB or ROB has completed, the store
\* holds no mask for (current image, landmark), and the deletion starts no
\* segmentation.
C9_MaskRemovedOnDelete ==
    [][/\ (pc = "idle" /\ handler'.op = "delete") => pc' # "s1"
       /\ (handler.op = "delete" /\ pc' = "idle")
             => ~HasMask(seg_masks', current_image_path, handler.lm)]_vars

\* C10: when the current image changes, the store holds no mask any more.
C10_MasksRemovedOnImageChange ==
    [][current_image_path' # current_image_path => MaskKeys(seg_masks') = {}]_vars

\* the mask a segmentation under the settings st, grown or shrunk by st.grow,
\* would be: m carries the method and the parameters derived from st
ProducedUnder(st, m) ==
    /\ m.method = st.method
    /\ m.p1 = (IF st.method = FloodFill THEN Tol(st.sens) ELSE Block(st.sens))
    /\ m.p2 = (IF st.method = FloodFill THEN 0 ELSE CConst(st.sens))
    /\ m.barrier = (IF st.method = FloodFill /\ st.edge_lock = 1
                    THEN BarrierK(st.edge_width) ELSE 0)
    /\ m.clahe = st.clahe
    /\ m.grow = st.grow

\* C11: whenever no handler is running, every mask of the store was produced
\* under the settings that lm_settings holds for its image and landmark.
C11_SettingsProducedMask ==
    pc = "idle" =>
        \A k \in MaskKeys(seg_masks) :
            /\ HasMask(lm_settings, k[1], k[2])
            /\ ProducedUnder(lm_settings[k[1]][k[2]], seg_masks[k[1]][k[2]])

\* a call of _segment_with_fallback is under way
InCall == pc \in {"s1", "s2", "s3", "s4"}

\* C12: from the start of a user action that triggers a segmentation until
\* _segment_with_fallback has returned, neither seg_masks nor lm_settings is
\* written: a step that ends inside the call leaves both as they were.
C12_StoreWrittenAfterReturn ==
    [][InCall' => (seg_masks' = seg_masks /\ lm_settings' = lm_settings)]_vars

\* C13: moving the Grow / Shrink scale while the selected landmark has a mask
\* stores that mask's accepted candidate grown or shrunk by the new value,
\* runs no segmentation and ends without error.
C13_GrowShrinkOnly ==
    [][(/\ pc = "idle"
        /\ selected_landmark' = selected_landmark
        /\ grow_shrink' # grow_shrink
        /\ HasMask(seg_masks, current_image_path, selected_landmark))
          => /\ error' = "none"
             /\ pc' = "idle"
             /\ attempts' = <<>>
             /\ HasMask(seg_masks', current_image_path, selected_landmark)
             /\ seg_masks'[current_image_path][selected_landmark]
                  = _grow_shrink([seg_masks[current_image_path][selected_landmark]
                                     EXCEPT !.grow = 0], grow_shrink')]_vars

\* ------------------------------------------------------------------------
\* The annotator started on a CSV that already holds a row: no image is open
\* yet, and the row of image A holds a ROB record whose sensitivity, edge-lock
\* width and grow value lie outside the ranges of the scales
\* ------------------------------------------------------------------------

OutOfRangeRecord ==
    <<PyFloat(35), PyFloat(42), PyStr(Chars("FF")), PyInt(80), PyInt(1), PyInt(9),
      PyInt(1), PyInt(40)>>
LoadedCsv == Put(EmptyDict, Images[1], Put(EmptyDict, "ROB", Repr(OutOfRangeRecord)))
\* _import_csv_to_db: json.dumps of the cells parsed by ast.literal_eval
LoadedDb ==
    [img \in DOMAIN LoadedCsv |->
        [lm \in DOMAIN LoadedCsv[img] |-> JsonDumps(LiteralEval(LoadedCsv[img][lm]))]]

InitLoaded ==
    /\ method = FloodFill
    /\ fill_sensitivity = DefaultSens
    /\ edge_lock = TRUE
    /\ edge_lock_width = DefaultEdgeWidth
    /\ use_clahe = TRUE
    /\ grow_shrink = 0
    /\ current_image_path = NoImage
    /\ selected_landmark = Landmarks[1]
    /\ landmark_visibility = [lm \in Range(Landmarks) |-> TRUE]
    /\ annotations = EmptyDict
    /\ last_seed = EmptyDict
    /\ seg_masks = EmptyDict
    /\ lm_settings = EmptyDict
    \* _import_csv_to_db has copied the rows of the CSV
    /\ db = LoadedDb
    /\ csv = LoadedCsv
    /\ pc = "idle"
    /\ handler = NoHandler
    /\ fb_x = 0
    /\ fb_y = 0
    /\ jit = 1
    /\ fb_mask = None
    /\ attempts = <<>>
    /\ entry = NoEntry
    /\ outcome = "none"
    /\ error = "none"
    /\ ops = 0
    /\ dirty = FALSE
    /\ san = NoSan
    /\ gs = NoGs
    /\ rt = NoRt
    /\ od = NoOd
    /\ th = NoTh
    /\ bk = NoBk
    /\ rf = "none"
    /\ pm = NoPm
    /\ nav = NoNav

SpecLoaded == InitLoaded /\ [][Next]_vars

MaxGrowW == 3
MaxGrowH == 3

\* the value of the foreground pixels of the gray masks
GrayTop == 255

PixelSteps == -2..2
RegionSteps == {-30, -26, -25, -24, -1, 0, 1, 24, 25, 26, 30}

GrowGrid == (0..(MaxGrowW - 1)) \X (0..(MaxGrowH - 1))

SampleRegion ==
    [kind |-> "mask", img |-> Images[1], method |-> FloodFill, x |-> 0, y |-> 0,
     p1 |-> Tol(DefaultSens), p2 |-> 0, barrier |-> DefaultEdgeWidth, clahe |-> 1,
     grow |-> 0, raw_area |-> MinArea]

GrowInputs ==
    {[done |-> 0, mask |-> [kind |-> "pixels", w |-> MaxGrowW, h |-> MaxGrowH, px |-> px],
      steps |-> st, res |-> None, again |-> None] :
        px \in SUBSET GrowGrid, st \in PixelSteps}
    \cup
    {[done |-> 0,
      mask |-> [kind |-> "gray", w |-> MaxGrowW, h |-> MaxGrowH, px |-> px, top |-> GrayTop],
      steps |-> st, res |-> None, again |-> None] :
        px \in SUBSET GrowGrid, st \in PixelSteps}
    \cup
    {[done |-> 0, mask |-> SampleRegion, steps |-> st, res |-> None, again |-> None] :
        st \in RegionSteps}

InitGrow ==
    /\ method = FloodFill
    /\ fill_sensitivity = DefaultSens
    /\ edge_lock = TRUE
    /\ edge_lock_width = DefaultEdgeWidth
    /\ use_clahe = TRUE
    /\ grow_shrink = 0
    /\ current_image_path = "A"
    /\ selected_landmark = "LOB"
    /\ landmark_visibility = [l \in Range(Landmarks) |-> TRUE]
    /\ db = EmptyDict
    /\ csv = EmptyDict
    /\ error = "none"
    /\ ops = 0
    /\ dirty = FALSE
    /\ annotations = EmptyDict
    /\ last_seed = EmptyDict
    /\ seg_masks = EmptyDict
    /\ lm_settings = EmptyDict
    /\ pc = "idle"
    /\ handler = NoHandler
    /\ fb_x = 0
    /\ fb_y = 0
    /\ jit = 1
    /\ fb_mask = None
    /\ attempts = <<>>
    /\ entry = _current_settings_dict
    /\ outcome = "none"
    /\ san = NoSan
    /\ gs \in GrowInputs
    /\ rt = NoRt
    /\ od = NoOd
    /\ th = NoTh
    /\ bk = NoBk
    /\ rf = "none"
    /\ pm = NoPm
    /\ nav = NoNav

\* mask = self._grow_shrink(mask, steps)
GrowShrink ==
    /\ gs.done = 0
    /\ gs.mask # None
    /\ gs' = [gs EXCEPT !.done = 1, !.res = _grow_shrink(gs.mask, gs.steps)]
    /\ UNCHANGED <<settings_vars, gui_vars, store_vars, call_vars, event_vars, san, rt, od, th, bk, rf, pm, nav>>

\* self._grow_shrink(mask, 0) on the mask returned
GrowShrinkAgain ==
    /\ gs.done = 1
    /\ gs' = [gs EXCEPT !.done = 2, !.again = _grow_shrink(gs.res, 0)]
    /\ UNCHANGED <<settings_vars, gui_vars, store_vars, call_vars, event_vars, san, rt, od, th, bk, rf, pm, nav>>

NextGrow == GrowShrink \/ GrowShrinkAgain

SpecGrow == InitGrow /\ [][NextGrow]_vars

\* the value of mask m at pixel p
ValueAt(m, p) == IF p \notin m.px THEN 0 ELSE IF m.kind = "gray" THEN m.top ELSE 1

\* normalize(m): 1 exactly where m > 0, 0 elsewhere
Normalized(m) ==
    IF m.kind = "mask" THEN m
    ELSE [kind |-> "pixels", w |-> m.w, h |-> m.h,
          px |-> {p \in (0..(m.w - 1)) \X (0..(m.h - 1)) : ValueAt(m, p) > 0}]

\* C15: _grow_shrink(m, 0) is normalize(m) and applying it again changes
\* nothing; for steps # 0 the radius is min(25, max(1, |steps|)), so that the
\* steps 25..30 give what 25 gives (and -30..-25 what -25 gives).
C15_ZeroStepsNormalizes ==
    /\ (gs.done >= 1 /\ gs.steps = 0) => gs.res = Normalized(gs.mask)
    /\ (gs.done = 2 /\ gs.steps = 0) => gs.again = gs.res
    /\ (gs.done >= 1 /\ gs.steps # 0 /\ gs.mask.kind = "mask") =>
          LET a == IF gs.steps < 0 THEN 0 - gs.steps ELSE gs.steps
              r == IF a > 25 THEN 25 ELSE a
          IN  /\ gs.res.grow = (IF gs.steps > 0 THEN r ELSE 0 - r)
              /\ a >= 25 => gs.res = _grow_shrink(gs.mask, IF gs.steps > 0 THEN 25 ELSE -25)

\* a gray mask with foreground was given with steps = 0 and the result given
\* again
C15_Witness ==
    /\ gs.done = 2
    /\ gs.steps = 0
    /\ gs.mask.kind = "gray"
    /\ gs.mask.px # {}
    /\ gs.res.kind = "pixels"

\* C16: for k > 0 the mask grown by k contains normalize(m) and the mask shrunk
\* by k is contained in normalize(m), so the area does not fall under growing
\* and does not rise under shrinking.
C16_GrowShrinkMonotone ==
    (gs.done >= 1 /\ gs.steps # 0 /\ gs.mask.kind # "mask") =>
        LET n == Normalized(gs.mask)
        IN  IF gs.steps > 0
            THEN /\ n.px \subseteq gs.res.px
                 /\ Cardinality(gs.res.px) >= Cardinality(n.px)
            ELSE /\ gs.res.px \subseteq n.px
                 /\ Cardinality(gs.res.px) <= Cardinality(n.px)

\* a mask was grown to a strictly larger one
C16_Witness ==
    /\ gs.done >= 1
    /\ gs.steps > 0
    /\ gs.mask.kind = "gray"
    /\ Cardinality(gs.res.px) > Cardinality(gs.mask.px)
    /\ gs.mask.px # {}

\* ------------------------------------------------------------------------
\* Specification of the persisted record on its own: the point and the
\* settings of LOB or ROB are written (_prepare_landmark_data, the database,
\* the CSV export) and read back (load_points)
\* ------------------------------------------------------------------------

\* the landmark, its point (coordinates in tenths of a pixel), its settings
\* (each in the range of its control), and whether the settings are stored
\* for the landmark
RecordInputs ==
    LET CoordSamples == {0, 5, 35, 1270}
        RecordSens == {1, DefaultSens, SensCap}
        RecordWidths == {1, EdgeWidthCap}
        RecordGrows == {-10, 0, 30}
    IN  [done : {0}, lm : Special, pt : CoordSamples \X {5, 420},
         st : [method : Methods, sens : RecordSens, edge_lock : {0, 1},
               edge_width : RecordWidths, clahe : {0, 1}, grow : RecordGrows],
         stored : BOOLEAN]

InitRecord ==
    /\ method = FloodFill
    /\ fill_sensitivity = DefaultSens
    /\ edge_lock = TRUE
    /\ edge_lock_width = DefaultEdgeWidth
    /\ use_clahe = TRUE
    /\ grow_shrink = 0
    /\ current_image_path = "A"
    /\ selected_landmark = "LOB"
    /\ landmark_visibility = [l \in Range(Landmarks) |-> TRUE]
    /\ db = EmptyDict
    /\ csv = EmptyDict
    /\ error = "none"
    /\ ops = 0
    /\ dirty = FALSE
    /\ annotations = EmptyDict
    /\ last_seed = EmptyDict
    /\ seg_masks = EmptyDict
    /\ lm_settings = EmptyDict
    /\ pc = "idle"
    /\ handler = NoHandler
    /\ fb_x = 0
    /\ fb_y = 0
    /\ jit = 1
    /\ fb_mask = None
    /\ attempts = <<>>
    /\ entry = _current_settings_dict
    /\ outcome = "none"
    /\ san = NoSan
    /\ gs = NoGs
    /\ rt \in RecordInputs
    /\ od = NoOd
    /\ th = NoTh
    /\ bk = NoBk
    /\ rf = "none"
    /\ pm = NoPm
    /\ nav = NoNav

\* save_annotations with the export due, for image A holding the point rt.pt
\* of rt.lm; the settings rt.st are those stored for the landmark (rt.stored)
\* or, none being stored, those of the UI
WriteRecord ==
    /\ rt.done = 0
    /\ Has(rt, "pt")
    /\ LET img == Images[1]
           ann == Put(EmptyDict, img, Put(EmptyDict, rt.lm, rt.pt))
           lms == IF rt.stored THEN Put(EmptyDict, img, Put(EmptyDict, rt.lm, rt.st))
                  ELSE Put(EmptyDict, img, EmptyDict)
           dbv == SaveToDb(EmptyDict, ann, lms, img, rt.st)
           csvv == ExportIfDue(dbv, EmptyDict, TRUE)
       IN  rt' = [done |-> 1, lm |-> rt.lm, pt |-> rt.pt, st |-> rt.st,
                  stored |-> rt.stored,
                  rec |-> _prepare_landmark_data(ann, lms, img, rt.st)[rt.lm],
                  row |-> csvv[img]]
    /\ UNCHANGED <<settings_vars, gui_vars, store_vars, call_vars, event_vars, san, gs, od, th, bk, rf, pm, nav>>

\* load_points on the row written
ReadRecord ==
    /\ rt.done = 1
    /\ rt' = [done |-> 2, lm |-> rt.lm, pt |-> rt.pt, st |-> rt.st,
              stored |-> rt.stored, rec |-> rt.rec, row |-> rt.row,
              pts |-> PointsOfRow(rt.row),
              sts |-> [lm \in SettingsCells(rt.row) |->
                          SettingsOfRecord(LiteralEval(rt.row[lm]))]]
    /\ UNCHANGED <<settings_vars, gui_vars, store_vars, call_vars, event_vars, san, gs, od, th, bk, rf, pm, nav>>

NextRecord == WriteRecord \/ ReadRecord

SpecRecord == InitRecord /\ [][NextRecord]_vars

\* C17: the record written for LOB or ROB has the 8 fields x, y, method code,
\* sensitivity, edge_lock, edge_lock_width, clahe, grow in this order, and
\* load_points reads from the cell written the same point and a settings
\* dict equal to the one written.
C17_RecordRoundTrips ==
    /\ rt.done >= 1 =>
          /\ Len(rt.rec) = 8
          /\ <<rt.rec[1].t, rt.rec[2].t, rt.rec[3].t>> = <<"float", "float", "str">>
          /\ \A i \in 4..8 : rt.rec[i].t = "int"
          /\ rt.rec[1].v = rt.pt[1]
          /\ rt.rec[2].v = rt.pt[2]
          /\ rt.rec[3].v = (IF rt.st.method = FloodFill THEN <<"F", "F">>
                            ELSE <<"A", "C", "C">>)
          /\ <<rt.rec[4].v, rt.rec[5].v, rt.rec[6].v, rt.rec[7].v, rt.rec[8].v>>
               = <<rt.st.sens, rt.st.edge_lock, rt.st.edge_width, rt.st.clahe, rt.st.grow>>
    /\ rt.done = 2 =>
          /\ Has(rt.pts, rt.lm)
          /\ rt.pts[rt.lm] = rt.pt
          /\ Has(rt.sts, rt.lm)
          /\ rt.sts[rt.lm] = rt.st

\* an Adaptive CC record with a negative grow value and a fractional
\* coordinate was written and read back
C17_Witness ==
    /\ rt.done = 2
    /\ rt.st.method = AdaptiveCC
    /\ rt.st.grow < 0
    /\ rt.pt[1] % 10 # 0
    /\ Has(rt.sts, rt.lm)

\* ------------------------------------------------------------------------
\* Specification of OneDriveBackup (auth.py): one call of backup_multiple or
\* of upload_backup_sync, its thread, and another thread that takes the lock
\* (_ensure_initialized)
\* ------------------------------------------------------------------------

MaxFiles == 3

\* what happens to one path: the file is absent ("missing"); its name cannot
\* be looked up, too long or in a directory that cannot be searched
\* ("unstatable"); it is there when _run looks and gone when
\* upload_backup_sync looks ("vanishes"); there is no auth record
\* ("norecord"); the record does not deserialize ("badrecord"); creating the
\* credential or the client raises ("credraise"); the upload returns an item
\* ("uploaded") or None ("noitem"), raises ("raises") or exceeds the timeout
\* ("timeout")
PathCases ==
    {"missing", "unstatable", "vanishes", "norecord", "badrecord", "credraise",
     "uploaded", "noitem", "raises", "timeout"}

\* Path.exists() at site "run" (_run) or "sync" (upload_backup_sync): "yes",
\* "no", or "raise"; Path.exists() lets an OSError other than ENOENT, ENOTDIR,
\* EBADF, ELOOP through (ENAMETOOLONG, EACCES) in the Python versions where
\* it calls stat() itself, and answers False in the others
ExistsOutcomes(case, site) ==
    CASE case = "missing" -> {"no"}
      [] case = "unstatable" -> {"no", "raise"}
      [] case = "vanishes" -> IF site = "run" THEN {"yes"} ELSE {"no"}
      [] OTHER -> {"yes"}

BackupInputs ==
    {[pc |-> "start", mode |-> mode, cb |-> cb, paths |-> paths, i |-> 1,
      success_count |-> 0, total |-> 0, tried |-> {}, rets |-> <<>>,
      calls |-> <<>>, clients |-> 0, locks |-> 0, lock |-> "free", other |-> 0] :
        mode \in {"multiple", "sync"}, cb \in BOOLEAN,
        paths \in UNION {[1..n -> PathCases] : n \in 0..MaxFiles}}

InitBackup ==
    /\ method = FloodFill
    /\ fill_sensitivity = DefaultSens
    /\ edge_lock = TRUE
    /\ edge_lock_width = DefaultEdgeWidth
    /\ use_clahe = TRUE
    /\ grow_shrink = 0
    /\ current_image_path = "A"
    /\ selected_landmark = "LOB"
    /\ landmark_visibility = [l \in Range(Landmarks) |-> TRUE]
    /\ db = EmptyDict
    /\ csv = EmptyDict
    /\ error = "none"
    /\ ops = 0
    /\ dirty = FALSE
    /\ annotations = EmptyDict
    /\ last_seed = EmptyDict
    /\ seg_masks = EmptyDict
    /\ lm_settings = EmptyDict
    /\ pc = "idle"
    /\ handler = NoHandler
    /\ fb_x = 0
    /\ fb_y = 0
    /\ jit = 1
    /\ fb_mask = None
    /\ attempts = <<>>
    /\ entry = _current_settings_dict
    /\ outcome = "none"
    /\ san = NoSan
    /\ gs = NoGs
    /\ rt = NoRt
    /\ od \in {o \in BackupInputs : o.mode = "sync" => Len(o.paths) = 1}
    /\ th = NoTh
    /\ bk = NoBk
    /\ rf = "none"
    /\ pm = NoPm
    /\ nav = NoNav

\* upload_backup_sync ends with res ("True", "False", or "raised"): back in _run,
\* or in the caller of upload_backup_sync
Returned_sync(o, res) ==
    LET r == [path |-> o.i, res |-> res, clients |-> o.clients, locks |-> o.locks]
        o1 == [o EXCEPT !.rets = Append(@, r)]
    IN  IF res = "raised"
        THEN [o1 EXCEPT !.pc = IF o.mode = "sync" THEN "raised" ELSE "died"]
        ELSE IF o.mode = "sync" THEN [o1 EXCEPT !.pc = "done"]
        ELSE [o1 EXCEPT !.pc = "loop", !.i = @ + 1,
                        !.success_count = IF res = "True" THEN @ + 1 ELSE @]

\* backup_multiple(file_paths, callback): starts the thread; _run begins
BackupMultiple ==
    /\ od.pc = "start"
    /\ od.mode = "multiple"
    /\ od' = [od EXCEPT !.pc = "loop", !.success_count = 0, !.total = Len(od.paths)]
    /\ UNCHANGED <<settings_vars, gui_vars, store_vars, call_vars, event_vars, san, gs, rt, th, bk, rf, pm, nav>>

\* for path in file_paths: p = Path(path); if p.exists(): ...
RunLoop ==
    /\ od.pc = "loop"
    /\ IF od.i > Len(od.paths)
       THEN od' = [od EXCEPT !.pc = "callback"]
       ELSE \E e \in ExistsOutcomes(od.paths[od.i], "run") :
               od' = [od EXCEPT !.tried = @ \cup {od.i},
                                !.pc = CASE e = "yes" -> "sync"
                                         [] e = "no" -> "loop"
                                         [] OTHER -> "died",
                                !.i = IF e = "no" THEN @ + 1 ELSE @]
    /\ UNCHANGED <<settings_vars, gui_vars, store_vars, call_vars, event_vars, san, gs, rt, th, bk, rf, pm, nav>>

\* if callback: callback(success_count, total)
Callback ==
    /\ od.pc = "callback"
    /\ od' = [od EXCEPT !.pc = "done",
                        !.calls = IF od.cb THEN Append(@, <<od.success_count, od.total>>)
                                  ELSE @]
    /\ UNCHANGED <<settings_vars, gui_vars, store_vars, call_vars, event_vars, san, gs, rt, th, bk, rf, pm, nav>>

\* upload_backup_sync(file_path) called by itself
UploadBackupSyncCall ==
    /\ od.pc = "start"
    /\ od.mode = "sync"
    /\ od' = [od EXCEPT !.pc = "sync"]
    /\ UNCHANGED <<settings_vars, gui_vars, store_vars, call_vars, event_vars, san, gs, rt, th, bk, rf, pm, nav>>

\* upload_backup_sync: path = Path(file_path); if not path.exists(): return False
UploadBackupSync ==
    /\ od.pc = "sync"
    /\ LET o == [od EXCEPT !.clients = 0, !.locks = 0]
       IN  \E e \in ExistsOutcomes(od.paths[od.i], "sync") :
               od' = CASE e = "yes" -> [o EXCEPT !.pc = "lock"]
                       [] e = "no" -> Returned_sync(o, "False")
                       [] OTHER -> Returned_sync(o, "raised")
    /\ UNCHANGED <<settings_vars, gui_vars, store_vars, call_vars, event_vars, san, gs, rt, th, bk, rf, pm, nav>>

\* _create_fresh_client: with self._lock
AcquireLock ==
    /\ od.pc = "lock"
    /\ od.lock = "free"
    /\ od' = [od EXCEPT !.pc = "client", !.lock = "upload", !.locks = @ + 1]
    /\ UNCHANGED <<settings_vars, gui_vars, store_vars, call_vars, event_vars, san, gs, rt, th, bk, rf, pm, nav>>

\* _create_fresh_client under the lock: None without a readable auth record
\* or when the credential or the client raises, else the client; then
\* "if not client: return False"
_create_fresh_client ==
    /\ od.pc = "client"
    /\ LET o == [od EXCEPT !.lock = "free"]
       IN  od' = IF od.paths[od.i] \in {"norecord", "badrecord", "credraise"}
                 THEN Returned_sync(o, "False")
                 ELSE [o EXCEPT !.pc = "upload", !.clients = @ + 1]
    /\ UNCHANGED <<settings_vars, gui_vars, store_vars, call_vars, event_vars, san, gs, rt, th, bk, rf, pm, nav>>

\* loop.run_until_complete(asyncio.wait_for(do_upload(), timeout)) and the
\* except clauses
do_upload ==
    /\ od.pc = "upload"
    /\ od' = Returned_sync(od, IF od.paths[od.i] = "uploaded" THEN "True" ELSE "False")
    /\ UNCHANGED <<settings_vars, gui_vars, store_vars, call_vars, event_vars, san, gs, rt, th, bk, rf, pm, nav>>

\* another thread in _ensure_initialized: with self._lock
OtherAcquire ==
    /\ od.pc \notin {"none", "start"}
    /\ od.other = 0
    /\ od.lock = "free"
    /\ od' = [od EXCEPT !.lock = "other", !.other = 1]
    /\ UNCHANGED <<settings_vars, gui_vars, store_vars, call_vars, event_vars, san, gs, rt, th, bk, rf, pm, nav>>

OtherRelease ==
    /\ od.pc # "none"
    /\ od.other = 1
    /\ od' = [od EXCEPT !.lock = "free", !.other = 2]
    /\ UNCHANGED <<settings_vars, gui_vars, store_vars, call_vars, event_vars, san, gs, rt, th, bk, rf, pm, nav>>

NextBackup ==
    \/ BackupMultiple
    \/ RunLoop
    \/ Callback
    \/ UploadBackupSyncCall
    \/ UploadBackupSync
    \/ AcquireLock
    \/ _create_fresh_client
    \/ do_upload
    \/ OtherAcquire
    \/ OtherRelease

SpecBackup == InitBackup /\ [][NextBackup]_vars

\* the paths of file_paths that exist when _run looks
ExistingPaths(o) ==
    {k \in 1..Len(o.paths) : o.paths[k] \notin {"missing", "unstatable"}}

\* C19: backup_multiple(file_paths, callback) calls the callback exactly once,
\* after every file has been attempted, with (success_count, total), total =
\* len(file_paths) and 0 <= success_count <= the number of paths that exist;
\* no path, absent or failing, keeps the remaining files from being attempted.
C19_CallbackOnceAfterAll ==
    (od.pc # "none" /\ od.mode = "multiple" /\ od.cb) =>
        /\ Len(od.calls) <= 1
        /\ Len(od.calls) = 1 =>
              /\ od.tried = 1..Len(od.paths)
              /\ od.calls[1][2] = Len(od.paths)
              /\ od.calls[1][1] \in 0..Cardinality(ExistingPaths(od))
        /\ od.pc \in {"done", "died"} =>
              /\ Len(od.calls) = 1
              /\ od.tried = 1..Len(od.paths)

\* C20: upload_backup_sync always returns a boolean; for a path that does not
\* exist it returns False having created no client and not taken the lock.
C20_SyncAlwaysBoolean ==
    od.pc # "none" =>
        \A k \in 1..Len(od.rets) :
            LET r == od.rets[k]
            IN  /\ r.res \in {"True", "False"}
                /\ od.paths[r.path] \in {"missing", "unstatable", "vanishes"} =>
                      (r.res = "False" /\ r.clients = 0 /\ r.locks = 0)

\* ------------------------------------------------------------------------
\* Specification of concurrent calls of OneDriveBackup (auth.py): NThreads
\* threads, each calling upload_backup_sync or _ensure_initialized once on
\* one of NInstances instances
\* ------------------------------------------------------------------------

NThreads == 2
NInstances == 2

\* the lock of instance inst after "with self._lock" is left
Unlocked(lock, inst) == lock
Released(lock, inst) == [lock EXCEPT ![inst] = 0]

\* the calls a thread can make: upload_backup_sync on a path with one of the
\* outcomes of PathCases, or _ensure_initialized, which succeeds ("ok") or
\* raises inside its try ("fails")
ThreadCalls ==
    [op : {"upload"}, inst : 1..NInstances,
     case : {"missing", "unstatable", "norecord", "credraise", "uploaded", "raises"}]
    \cup [op : {"init"}, inst : 1..NInstances, case : {"ok", "fails"}]

InitThreads ==
    /\ method = FloodFill
    /\ fill_sensitivity = DefaultSens
    /\ edge_lock = TRUE
    /\ edge_lock_width = DefaultEdgeWidth
    /\ use_clahe = TRUE
    /\ grow_shrink = 0
    /\ current_image_path = "A"
    /\ selected_landmark = "LOB"
    /\ landmark_visibility = [l \in Range(Landmarks) |-> TRUE]
    /\ db = EmptyDict
    /\ csv = EmptyDict
    /\ error = "none"
    /\ ops = 0
    /\ dirty = FALSE
    /\ annotations = EmptyDict
    /\ last_seed = EmptyDict
    /\ seg_masks = EmptyDict
    /\ lm_settings = EmptyDict
    /\ pc = "idle"
    /\ handler = NoHandler
    /\ fb_x = 0
    /\ fb_y = 0
    /\ jit = 1
    /\ fb_mask = None
    /\ attempts = <<>>
    /\ entry = _current_settings_dict
    /\ outcome = "none"
    /\ san = NoSan
    /\ gs = NoGs
    /\ rt = NoRt
    /\ od = NoOd
    /\ bk = NoBk
    /\ rf = "none"
    /\ pm = NoPm
    /\ nav = NoNav
    /\ \E calls \in [1..NThreads -> ThreadCalls] :
          th = [n |-> NThreads, call |-> calls,
                pc |-> [t \in 1..NThreads |-> "start"],
                lock |-> [k \in 1..NInstances |-> 0],
                initialized |-> [k \in 1..NInstances |-> FALSE]]

\* upload_backup_sync in thread t: path.exists()
ThreadUploadSync(t) ==
    /\ th.call[t].op = "upload"
    /\ th.pc[t] = "start"
    /\ \E e \in ExistsOutcomes(th.call[t].case, "sync") :
          th' = [th EXCEPT !.pc[t] = CASE e = "yes" -> "lock"
                                       [] e = "no" -> "returned"
                                       [] OTHER -> "raised"]

\* _ensure_initialized in thread t: if self._initialized: return True
ThreadEnsureInitialized(t) ==
    /\ th.call[t].op = "init"
    /\ th.pc[t] = "start"
    /\ th' = [th EXCEPT !.pc[t] = IF th.initialized[th.call[t].inst] THEN "returned"
                                  ELSE "lock"]

\* with self._lock: thread t waits until the lock of its instance is free
ThreadAcquire(t) ==
    /\ th.pc[t] = "lock"
    /\ th.lock[th.call[t].inst] = 0
    /\ th' = [th EXCEPT !.lock[th.call[t].inst] = t,
                        !.pc[t] = IF th.call[t].op = "upload" THEN "client" ELSE "init"]

\* _create_fresh_client under the lock, in thread t; every return leaves the
\* with block
ThreadCreateClient(t) ==
    /\ th.pc[t] = "client"
    /\ th' = [th EXCEPT !.lock = Released(@, th.call[t].inst),
                        !.pc[t] = IF th.call[t].case \in {"norecord", "credraise"}
                                  THEN "returned" ELSE "upload"]

\* the upload of thread t and the except clauses of upload_backup_sync
ThreadUpload(t) ==
    /\ th.pc[t] = "upload"
    /\ th' = [th EXCEPT !.pc[t] = "returned"]

\* _ensure_initialized under the lock, in thread t: the second look at
\* _initialized, the credential, the token, the client
ThreadInitialize(t) ==
    /\ th.pc[t] = "init"
    /\ th' = [th EXCEPT !.lock = Released(@, th.call[t].inst),
                        !.initialized[th.call[t].inst] = @ \/ th.call[t].case = "ok",
                        !.pc[t] = "returned"]

NextThreads ==
    /\ th.n > 0
    /\ \E t \in 1..th.n :
          \/ ThreadUploadSync(t)
          \/ ThreadEnsureInitialized(t)
          \/ ThreadAcquire(t)
          \/ ThreadCreateClient(t)
          \/ ThreadUpload(t)
          \/ ThreadInitialize(t)
    /\ UNCHANGED <<settings_vars, gui_vars, store_vars, call_vars, event_vars, san, gs, rt, od, bk, rf, pm, nav>>

SpecThreads == InitThreads /\ [][NextThreads]_vars

\* threads are scheduled, and a network operation terminates
SpecThreadsFair == SpecThreads /\ WF_vars(NextThreads)

\* every call has ended, by a return or by an exception
AllEnded == \A t \in 1..th.n : th.pc[t] \in {"returned", "raised"}

\* a lock is held only by a thread inside its with block
HeldInside ==
    \A k \in DOMAIN th.lock :
        th.lock[k] # 0 =>
            /\ th.call[th.lock[k]].inst = k
            /\ th.pc[th.lock[k]] \in {"client", "init"}

C22_AttemptsDistinct ==
    \A i, j \in 1..Len(attempts) :
        (i < j) =>
            <<attempts[i].method, attempts[i].x, attempts[i].y, attempts[i].sens>>
              # <<attempts[j].method, attempts[j].x, attempts[j].y, attempts[j].sens>>

\* C23: between two handlers, last_seed[lm] is defined only if lm has a point
\* on the current image, and is then the integer part of that point.
C23_SeedIsCurrentPoint ==
    pc = "idle" =>
        \A lm \in DOMAIN last_seed :
            /\ Has(annotations, current_image_path)
            /\ Has(annotations[current_image_path], lm)
            /\ last_seed[lm] = SeedOf(annotations[current_image_path][lm])

\* C24: when _segment_with_fallback returns None, _resegment_for returns
\* without an exception, shows the "No region found" warning, does not grow
\* or store a mask, and seg_masks, the annotations and the settings are as
\* they were when the call began (nothing in the call writes seg_masks or the
\* annotations, and the settings are those of its entry).
C24_ExhaustionLeavesState ==
    [][/\ (pc = "ret" /\ handler.op # "none" /\ outcome = "None") =>
             /\ rf' = "warned"
             /\ error' = "none"
             /\ seg_masks' = seg_masks
             /\ annotations' = annotations
             /\ _current_settings_dict = entry
             /\ _current_settings_dict' = entry
       /\ (pc \notin {"idle", "ret"}) =>
             /\ seg_masks' = seg_masks
             /\ annotations' = annotations]_vars

\* a handler has ended whose _resegment_for showed the warning, and the mask
\* stored before for the current image is still there
C24_Witness ==
    /\ pc = "idle"
    /\ rf = "warned"
    /\ Has(seg_masks, current_image_path)
    /\ seg_masks[current_image_path] # EmptyDict

\* C25: every landmark for which seg_masks, lm_settings or last_seed holds
\* something is LOB or ROB, and a segmenter runs only for LOB or ROB.
C25_OnlySpecialLandmarks ==
    LET two == {"LOB", "ROB"}
    IN  /\ \A img \in DOMAIN seg_masks : DOMAIN seg_masks[img] \subseteq two
        /\ \A img \in DOMAIN lm_settings : DOMAIN lm_settings[img] \subseteq two
        /\ DOMAIN last_seed \subseteq two
        /\ pc \notin {"idle", "ret"} => handler.lm \in two

\* the Re-segment button was pressed with the ordinary landmark selected and
\* annotated: _resegment_for returns without a call
C25_Witness ==
    /\ pc = "ret"
    /\ handler.op = "button"
    /\ handler.lm = "PT"
    /\ Has(annotations, current_image_path)
    /\ Has(annotations[current_image_path], "PT")
    /\ outcome = "skipped"

\* ------------------------------------------------------------------------
\* Specification of the parameters the segmenters derive from the
\* sensitivity, for every position of the Sensitivity scale
\* ------------------------------------------------------------------------

\* loDiff and upDiff of cv2.floodFill in _segment_ff
FloodFillDiffs(sens) == [loDiff |-> Tol(sens), upDiff |-> Tol(sens)]

\* block size and constant of cv2.adaptiveThreshold in _segment_adaptive_cc
AdaptiveArgs(sens) == [block |-> Block(sens), C |-> CConst(sens)]

InitParams ==
    /\ method = FloodFill
    /\ fill_sensitivity = DefaultSens
    /\ edge_lock = TRUE
    /\ edge_lock_width = DefaultEdgeWidth
    /\ use_clahe = TRUE
    /\ grow_shrink = 0
    /\ current_image_path = "A"
    /\ selected_landmark = "LOB"
    /\ landmark_visibility = [l \in Range(Landmarks) |-> TRUE]
    /\ db = EmptyDict
    /\ csv = EmptyDict
    /\ error = "none"
    /\ ops = 0
    /\ dirty = FALSE
    /\ annotations = EmptyDict
    /\ last_seed = EmptyDict
    /\ seg_masks = EmptyDict
    /\ lm_settings = EmptyDict
    /\ pc = "idle"
    /\ handler = NoHandler
    /\ fb_x = 0
    /\ fb_y = 0
    /\ jit = 1
    /\ fb_mask = None
    /\ attempts = <<>>
    /\ entry = _current_settings_dict
    /\ outcome = "none"
    /\ san = NoSan
    /\ gs = NoGs
    /\ rt = NoRt
    /\ od = NoOd
    /\ th = NoTh
    /\ bk = NoBk
    /\ rf = "none"
    /\ \E sens \in 1..SensCap : pm = [sens |-> sens, ff |-> <<>>, acc |-> <<>>]
    /\ nav = NoNav

\* _segment_ff at sensitivity pm.sens and, below the top of the scale, at the
\* next position of the scale
FloodFillParams ==
    /\ pm.sens > 0
    /\ pm.ff = <<>>
    /\ pm' = [pm EXCEPT !.ff = [s \in {pm.sens, Min(SensCap, pm.sens + 1)} |->
                                   FloodFillDiffs(s)]]
    /\ UNCHANGED <<settings_vars, gui_vars, store_vars, call_vars, event_vars, san, gs, rt, od, th, bk, rf, nav>>

\* _segment_adaptive_cc at the same sensitivities
AdaptiveParams ==
    /\ pm.sens > 0
    /\ pm.acc = <<>>
    /\ pm' = [pm EXCEPT !.acc = [s \in {pm.sens, Min(SensCap, pm.sens + 1)} |->
                                    AdaptiveArgs(s)]]
    /\ UNCHANGED <<settings_vars, gui_vars, store_vars, call_vars, event_vars, san, gs, rt, od, th, bk, rf, nav>>

NextParams == FloodFillParams \/ AdaptiveParams

SpecParams == InitParams /\ [][NextParams]_vars

\* C26: for every sensitivity s in 1..50 the tolerance of the flood fill is
\* max(1, min(80, 2 s + 2)), lies in 4..80, does not decrease with s, and is
\* both the lower and the upper difference of the fill.
C26_ToleranceSymmetric ==
    (pm.sens > 0 /\ pm.ff # <<>>) =>
        LET a == pm.ff[pm.sens]
            b == pm.ff[Min(50, pm.sens + 1)]
            two == 2 * pm.sens + 2
        IN  /\ a.loDiff = (IF two > 80 THEN 80 ELSE IF two < 1 THEN 1 ELSE two)
            /\ a.loDiff \in 4..80
            /\ a.upDiff = a.loDiff
            /\ a.loDiff <= b.loDiff

\* the tolerance was derived at a sensitivity where the cap of 80 cuts it
C26_Witness == pm.sens > 39 /\ pm.ff # <<>> /\ pm.ff[pm.sens].loDiff = 80

\* C27: for every sensitivity s in 1..50 the block size
\* max(11, 2 (5 + s div 2) + 1) is odd, at least 11 and does not decrease
\* with s, and the constant max(2, min(15, 12 - s div 5)) lies in 2..15 and
\* does not increase with s.
C27_BlockOddConstantBounded ==
    (pm.sens > 0 /\ pm.acc # <<>>) =>
        LET a == pm.acc[pm.sens]
            b == pm.acc[Min(50, pm.sens + 1)]
            blk == 2 * (5 + pm.sens \div 2) + 1
            c == 12 - pm.sens \div 5
        IN  /\ a.block = (IF blk < 11 THEN 11 ELSE blk)
            /\ a.block % 2 = 1
            /\ a.block >= 11
            /\ a.block <= b.block
            /\ a.C = (IF c > 15 THEN 15 ELSE IF c < 2 THEN 2 ELSE c)
            /\ a.C \in 2..15
            /\ a.C >= b.C

\* block and constant were derived where the constant reaches its bound 2
\* and the block has grown to 61
C27_Witness ==
    /\ pm.sens = 50
    /\ pm.acc # <<>>
    /\ pm.acc[50] = [block |-> 61, C |-> 2]

\* C28: the mask written to seg_masks, the mask a segmenter returned after
\* the grow/shrink step, has a foreground area a with 30 <= a and
\* a <= 0.7 * w * h, for every position of the Grow / Shrink scale; in
\* particular it is not empty.
C28_StoredMaskPlausible ==
    (san.done /\ gs.done = 1) =>
        LET a == Cardinality(gs.res.px)
        IN  MinArea <= a /\ 10 * a <= 7 * gs.res.w * gs.res.h

\* ------------------------------------------------------------------------
\* Claims about navigation (Spec)
\* ------------------------------------------------------------------------

\* the points of a database record: the first two items of each landmark's data
RecordPoints(rec) ==
    [lm \in DOMAIN rec |->
        <<FloatOf(JsonLoads(rec[lm])[1]), FloatOf(JsonLoads(rec[lm])[2])>>]

\* C29: annotations survive navigation: once a point was placed or deleted on
\* an image and the user has moved to another image and back (Next then
\* Previous), the annotations shown for that image and its record in the
\* database are the ones that change left, whether or not the CSV export was
\* due at either save
C29_AnnotationsSurviveNavigation ==
    (pc = "idle" /\ nav.phase = "back" /\ current_image_path = nav.img) =>
        /\ Has(annotations, nav.img)
        /\ annotations[nav.img] = nav.pts
        /\ Has(db, nav.img)
        /\ RecordPoints(db[nav.img]) = nav.pts

\* ------------------------------------------------------------------------
\* The backup at window close (_on_close, _backup_with_progress_dialog)
\* ------------------------------------------------------------------------

\* The window is being closed. db_path: self.db_path is set; export: how
\* _export_db_to_csv goes up to the CSV rename ("ok", the database read fails,
\* or the CSV write raises OSError); files: the case of the database file and
\* of the CSV file, as in PathCases; lock: the OneDrive lock is free or held by
\* the thread of _init_onedrive_credentials inside _ensure_initialized
InitClose ==
    /\ method = FloodFill
    /\ fill_sensitivity = DefaultSens
    /\ edge_lock = TRUE
    /\ edge_lock_width = DefaultEdgeWidth
    /\ use_clahe = TRUE
    /\ grow_shrink = 0
    /\ current_image_path = "A"
    /\ selected_landmark = "LOB"
    /\ landmark_visibility = [l \in Range(Landmarks) |-> TRUE]
    /\ db = EmptyDict
    /\ csv = EmptyDict
    /\ error = "none"
    /\ ops = 0
    /\ dirty = FALSE
    /\ annotations = EmptyDict
    /\ last_seed = EmptyDict
    /\ seg_masks = EmptyDict
    /\ lm_settings = EmptyDict
    /\ pc = "idle"
    /\ handler = NoHandler
    /\ fb_x = 0
    /\ fb_y = 0
    /\ jit = 1
    /\ fb_mask = None
    /\ attempts = <<>>
    /\ entry = _current_settings_dict
    /\ outcome = "none"
    /\ san = NoSan
    /\ gs = NoGs
    /\ rt = NoRt
    /\ od = NoOd
    /\ th = NoTh
    /\ bk \in {[pc |-> "start", db_path |-> d, export |-> ex, files |-> fs, lock |-> l,
                t |-> "none", i |-> 1, done |-> FALSE, success |-> 0, current |-> 0,
                shown |-> 0, dialog |-> "none", destroys |-> 0, timer |-> FALSE] :
                d \in BOOLEAN, ex \in {"ok", "dberror", "oserror"},
                fs \in [1..2 -> PathCases], l \in {"free", "init"}}
    /\ rf = "none"
    /\ pm = NoPm
    /\ nav = NoNav

\* _on_close: window_close_flag = True; without db_path, or when the export
\* returns or fails before the backup, destroy(); else _backup_to_onedrive
\* -> _backup_with_progress_dialog: the dialog is created, upload_state is
\* initialised and the upload thread is started
OnClose ==
    /\ bk.pc = "start"
    /\ bk' = IF bk.db_path /\ bk.export = "ok"
             THEN [bk EXCEPT !.pc = "check", !.dialog = "open", !.t = "loop"]
             ELSE [bk EXCEPT !.pc = "closed"]
    /\ UNCHANGED <<settings_vars, gui_vars, store_vars, call_vars, event_vars, san, gs, rt, od, th, rf, pm, nav>>

\* do_upload, the head of "for fpath in files: if fpath.exists():", and
\* upload_state["done"] = True after the loop; an exception of exists() is not
\* caught and ends the thread
UploadLoop ==
    /\ bk.t = "loop"
    /\ IF bk.i > Len(bk.files)
       THEN bk' = [bk EXCEPT !.t = "ended", !.done = TRUE]
       ELSE \E e \in ExistsOutcomes(bk.files[bk.i], "run") :
               bk' = CASE e = "yes" -> [bk EXCEPT !.t = "sync", !.current = bk.i]
                       [] e = "no" -> [bk EXCEPT !.i = @ + 1]
                       [] OTHER -> [bk EXCEPT !.t = "died"]
    /\ UNCHANGED <<settings_vars, gui_vars, store_vars, call_vars, event_vars, san, gs, rt, od, th, rf, pm, nav>>

\* do_upload, "try: if upload_backup_sync(fpath): success += 1 except
\* Exception": the call waits for the lock when it gets to _create_fresh_client,
\* returns True only when the item was uploaded, and whatever it raises is
\* caught here
UploadFile ==
    /\ bk.t = "sync"
    /\ \E e \in ExistsOutcomes(bk.files[bk.i], "sync") :
          /\ e = "yes" => bk.lock = "free"
          /\ bk' = [bk EXCEPT !.t = "loop", !.i = @ + 1,
                              !.success = IF e = "yes" /\ bk.files[bk.i] = "uploaded"
                                          THEN @ + 1 ELSE @]
    /\ UNCHANGED <<settings_vars, gui_vars, store_vars, call_vars, event_vars, san, gs, rt, od, th, rf, pm, nav>>

\* the thread of _init_onedrive_credentials leaves the with block of
\* _ensure_initialized
InitializedRelease ==
    /\ bk.pc \notin {"none", "start"}
    /\ bk.lock = "init"
    /\ bk' = [bk EXCEPT !.lock = "free"]
    /\ UNCHANGED <<settings_vars, gui_vars, store_vars, call_vars, event_vars, san, gs, rt, od, th, rf, pm, nav>>

\* check_progress, called once by _backup_with_progress_dialog and then by the
\* timer of dialog.after(100, check_progress) while wait_window runs the
\* event loop
check_progress ==
    /\ bk.pc = "check" \/ (bk.pc = "waiting" /\ bk.timer)
    /\ bk' = [bk EXCEPT !.shown = IF bk.current # 0 THEN bk.current ELSE @,
                        !.dialog = IF bk.done THEN "destroyed" ELSE @,
                        !.destroys = IF bk.done THEN @ + 1 ELSE @,
                        !.timer = ~bk.done,
                        !.pc = IF bk.pc = "check" THEN "wait" ELSE @]
    /\ UNCHANGED <<settings_vars, gui_vars, store_vars, call_vars, event_vars, san, gs, rt, od, th, rf, pm, nav>>

\* self.wait_window(dialog): tkwait window looks the dialog up by its path
\* name, which is an error (TclError) once the dialog is destroyed; the
\* exception is no OSError, so it leaves _export_db_to_csv and _on_close
wait_window ==
    /\ bk.pc = "wait"
    /\ bk' = [bk EXCEPT !.pc = IF bk.dialog = "destroyed" THEN "raised" ELSE "waiting"]
    /\ UNCHANGED <<settings_vars, gui_vars, store_vars, call_vars, event_vars, san, gs, rt, od, th, rf, pm, nav>>

\* wait_window returns when the dialog is destroyed; _on_close: self.destroy()
Destroy ==
    /\ bk.pc = "waiting"
    /\ bk.dialog = "destroyed"
    /\ bk' = [bk EXCEPT !.pc = "closed"]
    /\ UNCHANGED <<settings_vars, gui_vars, store_vars, call_vars, event_vars, san, gs, rt, od, th, rf, pm, nav>>

UploadThread == UploadLoop \/ UploadFile

MainThread == OnClose \/ check_progress \/ wait_window \/ Destroy

NextClose == MainThread \/ UploadThread \/ InitializedRelease

SpecClose == InitClose /\ [][NextClose]_vars

\* threads are scheduled, the event loop runs its timers, and the device code
\* flow inside _ensure_initialized ends
SpecCloseFair ==
    SpecClose /\ WF_vars(MainThread) /\ WF_vars(UploadThread) /\ WF_vars(InitializedRelease)

\* C30: the close-time backup always finishes: whatever each file upload does,
\* the upload thread sets upload_state["done"], the polling callback then
\* destroys the dialog, exactly once, wait_window returns and _on_close gets
\* to destroy()
C30_CloseBackupFinishes ==
    /\ [](bk.t \in {"loop", "sync"} => <>bk.done)
    /\ [](bk.destroys <= 1)
    /\ <>(bk.pc = "closed")

====
